---- MODULE Spec2Model ----
(***************************************************************************)
(* Model of the Boom game store (features/boom/store.ts): the raw message  *)
(* ledger, the podium derived from it, the legacy placement lists, the     *)
(* valid-post counters, the daily/weekly markers, the crown records and    *)
(* the weekly totals.                                                      *)
(*                                                                         *)
(* Strings that the code compares with < (user ids, Slack timestamps) are  *)
(* sequences of UTF-16 code units.  Dates are day ordinals counted from    *)
(* Monday 2024-12-30 (day 1), so that 2025-03-03 is day 64.                *)
(***************************************************************************)
EXTENDS Integers, Sequences, FiniteSets, TLC

(***************************************************************************)
(* Bounds of the model.                                                    *)
(***************************************************************************)
\* events one date+game ledger may hold
MaxEvents == 4
\* digits kept after the decimal point of a timestamp's numeric value
FracDigits == 2
\* largest value of a date+game counter
MaxCount == 2
\* greatest wall-clock reading (ms)
MaxClock == 2
\* greatest crowned_at (ms) a crown record may reach
MaxStamp == 4

\* message handlers in flight at one time
MaxHandlers == 2
\* largest value a date+game counter reaches through the message handler
MaxValid == 4
\* offset (ms) of the local zone that toISO() writes into a timestamp
ZoneOffset == 2

(***************************************************************************)
(* Strings.                                                                *)
(***************************************************************************)
Min(a, b) == IF a < b THEN a ELSE b

\* the user id "U<n>", n a single digit
U(n) == <<85, 48 + n>>

\* JavaScript a < b on strings: lexicographic on code units
RECURSIVE StrLess(_, _)
StrLess(a, b) ==
  IF b = <<>> THEN FALSE
  ELSE IF a = <<>> THEN TRUE
  ELSE IF Head(a) # Head(b) THEN Head(a) < Head(b)
  ELSE StrLess(Tail(a), Tail(b))

\* a.localeCompare(b) for ids of one case made of ASCII letters and digits
localeCompare(a, b) == IF a = b THEN 0 ELSE IF StrLess(a, b) THEN -1 ELSE 1

IsDigit(c) == c \in 48..57

RECURSIVE Pow10(_)
Pow10(n) == IF n = 0 THEN 1 ELSE 10 * Pow10(n - 1)

\* one second, in the unit 10^-FracDigits s that numeric timestamps are counted in
Unit == Pow10(FracDigits)

(***************************************************************************)
(* Reading a number from a string.  The literals covered are the unsigned  *)
(* decimal ones (digits, at most one '.', one digit at least), which is    *)
(* what Slack sends; fraction digits beyond FracDigits are dropped, so two *)
(* strings that differ only there have one numeric value, as two strings   *)
(* beyond the precision of a double have.                                  *)
(***************************************************************************)
\* Reads the longest run of digits with at most one '.' from position i on.
\* fd: fraction digits read, -1 before the '.'; nd: digits read; v: the value.
RECURSIVE ScanDecimal(_, _, _, _, _)
ScanDecimal(s, i, fd, nd, v) ==
  IF i > Len(s) THEN [end |-> i - 1, nd |-> nd, v |-> v]
  ELSE IF IsDigit(s[i])
       THEN IF fd = -1
            THEN ScanDecimal(s, i + 1, fd, nd + 1, 10 * v + (s[i] - 48) * Unit)
            ELSE ScanDecimal(s, i + 1, fd + 1, nd + 1,
                   IF fd < FracDigits THEN v + (s[i] - 48) * Pow10(FracDigits - fd - 1) ELSE v)
       ELSE IF s[i] = 46 /\ fd = -1 THEN ScanDecimal(s, i + 1, 0, nd, v)
       ELSE [end |-> i - 1, nd |-> nd, v |-> v]

NotANumber == [nan |-> TRUE, v |-> 0]

\* Number(s): the whole string must be a literal; Number("") is 0
ToNumber(s) ==
  LET r == ScanDecimal(s, 1, -1, 0, 0)
  IN IF s = <<>> THEN [nan |-> FALSE, v |-> 0]
     ELSE IF r.end = Len(s) /\ r.nd >= 1 THEN [nan |-> FALSE, v |-> r.v]
     ELSE NotANumber

\* parseFloat(s): the longest prefix that is a literal
parseFloat(s) ==
  LET r == ScanDecimal(s, 1, -1, 0, 0)
  IN IF r.nd >= 1 THEN [nan |-> FALSE, v |-> r.v] ELSE NotANumber

slackTsValue(ts) ==
  LET n == ToNumber(ts)
  IN IF ~n.nan THEN n.v
     ELSE LET f == parseFloat(ts)
          IN IF f.nan THEN 0 ELSE f.v

\* "50.0", "75.0", "100.0" and "100.00"
T50   == <<53, 48, 46, 48>>
T75   == <<55, 53, 46, 48>>
T100  == <<49, 48, 48, 46, 48>>
T100b == <<49, 48, 48, 46, 48, 48>>

\* every timestamp string of the model
AllTs == {T50, T75, T100, T100b}

\* parseSlackTs is pure: its values on the model's timestamps, computed once
TsValues == [ts \in AllTs |-> slackTsValue(ts)]

parseSlackTs(ts) == IF ts \in AllTs THEN TsValues[ts] ELSE slackTsValue(ts)

(***************************************************************************)
(* Calendar (luxon) on day ordinals.                                       *)
(***************************************************************************)
\* DateTime.year of a day: days 1 and 2 are 2024-12-30 and 2024-12-31
YearOf(d) == IF d <= 2 THEN 2024 ELSE 2025

\* DateTime.weekNumber: day 1 is the Monday of ISO week 1 of 2025; the days
\* before it belong to the 52 ISO weeks of 2024, whose week 1 starts on Monday
\* 2024-01-01 (day -363)
WeekNumberOf(d) == IF d <= 0 THEN ((d + 363) \div 7) + 1 ELSE ((d - 1) \div 7) + 1

\* `${start.year}-W${wk}` as the pair it is built from
weekKeyForRange(startDate, endDate) == <<YearOf(startDate), WeekNumberOf(startDate)>>

\* DateTime.fromMillis(ms).toISO(): local wall time with the zone offset
toISO(ms) == [wall |-> ms + ZoneOffset, offset |-> ZoneOffset]

\* DateTime.fromISO(s).toMillis()
toMillis(iso) == iso.wall - iso.offset

(***************************************************************************)
(* Store data.                                                             *)
(***************************************************************************)
Games == {"boom", "hadeda", "wednesday"}
GameOrder == <<"boom", "hadeda", "wednesday">>

EmptyMap == [x \in {} |-> x]

Put(f, k, v) == [x \in (DOMAIN f) \cup {k} |-> IF x = k THEN v ELSE f[x]]

\* placements[date][game] = <<>> stands for a missing key as well as for []
initialData ==
  [placements         |-> EmptyMap,
   counts             |-> EmptyMap,
   daily_announced    |-> EmptyMap,
   weekly_crowned     |-> EmptyMap,
   weekly_kings       |-> <<>>,
   weekly_adjustments |-> EmptyMap,
   messages           |-> EmptyMap]

ensureDay(d, date) ==
  [d EXCEPT
     !.placements = IF date \in DOMAIN @ THEN @ ELSE Put(@, date, [g \in Games |-> <<>>]),
     !.counts     = IF date \in DOMAIN @ THEN @ ELSE Put(@, date, [g \in Games |-> 0]),
     !.messages   = IF date \in DOMAIN @ THEN @ ELSE Put(@, date, [g \in Games |-> <<>>])]

getMessages(d, date, game) ==
  IF date \in DOMAIN d.messages THEN d.messages[date][game] ELSE <<>>

\* index of uid among the Map's entries, 0 when it has no entry
EntryIndex(entries, uid) ==
  IF \E i \in 1..Len(entries) : entries[i].uid = uid
  THEN CHOOSE i \in 1..Len(entries) : entries[i].uid = uid
  ELSE 0

\* the mutant of earliestEntries in which a user's most recent message wins
RECURSIVE latestEntries(_, _)
latestEntries(msgs, acc) ==
  IF msgs = <<>> THEN acc
  ELSE LET m == Head(msgs)
           i == EntryIndex(acc, m.user_id)
           e == [uid |-> m.user_id, tsNum |-> parseSlackTs(m.message_ts), tsStr |-> m.message_ts]
       IN IF i = 0 THEN latestEntries(Tail(msgs), Append(acc, e))
          ELSE latestEntries(Tail(msgs), [acc EXCEPT ![i] = e])

\* the Map user -> earliest ts, as its entries in insertion order
RECURSIVE earliestEntries(_, _)
earliestEntries(msgs, acc) ==
  IF msgs = <<>> THEN acc
  ELSE LET m == Head(msgs)
           t == parseSlackTs(m.message_ts)
           i == EntryIndex(acc, m.user_id)
           e == [uid |-> m.user_id, tsNum |-> t, tsStr |-> m.message_ts]
       IN IF i = 0 THEN earliestEntries(Tail(msgs), Append(acc, e))
          ELSE IF t < acc[i].tsNum \/ (t = acc[i].tsNum /\ StrLess(m.message_ts, acc[i].tsStr))
               THEN earliestEntries(Tail(msgs), [acc EXCEPT ![i] = e])
               ELSE earliestEntries(Tail(msgs), acc)

\* the mutant of podiumCompare without the final user_id tie-break
podiumCompareNoUid(a, b) ==
  IF a.tsNum # b.tsNum THEN a.tsNum - b.tsNum
  ELSE IF a.tsStr # b.tsStr THEN (IF StrLess(a.tsStr, b.tsStr) THEN -1 ELSE 1)
  ELSE 0

\* the mutant of podiumCompare that sorts the numeric values descending
podiumCompareDescending(a, b) ==
  IF a.tsNum # b.tsNum THEN b.tsNum - a.tsNum
  ELSE IF a.tsStr # b.tsStr THEN (IF StrLess(a.tsStr, b.tsStr) THEN -1 ELSE 1)
  ELSE IF StrLess(a.uid, b.uid) THEN -1 ELSE IF StrLess(b.uid, a.uid) THEN 1 ELSE 0

\* the comparator of the sort: negative, zero or positive
podiumCompare(a, b) ==
  IF a.tsNum # b.tsNum THEN a.tsNum - b.tsNum
  ELSE IF a.tsStr # b.tsStr THEN (IF StrLess(a.tsStr, b.tsStr) THEN -1 ELSE 1)
  ELSE IF StrLess(a.uid, b.uid) THEN -1 ELSE IF StrLess(b.uid, a.uid) THEN 1 ELSE 0

\* Array.prototype.sort is stable: x goes after every element not greater than it
RECURSIVE podiumInsert(_, _)
podiumInsert(x, s) ==
  IF s = <<>> THEN <<x>>
  ELSE IF podiumCompare(x, Head(s)) < 0 THEN <<x>> \o s
  ELSE <<Head(s)>> \o podiumInsert(x, Tail(s))

RECURSIVE podiumSort(_, _)
podiumSort(entries, acc) ==
  IF entries = <<>> THEN acc
  ELSE podiumSort(Tail(entries), podiumInsert(Head(entries), acc))

\* the mutant of computePodiumFromMessages without the slice(0, 3)
computePodiumUncapped(d, date, game) ==
  LET msgs == getMessages(d, date, game)
  IN IF Len(msgs) = 0 THEN <<>>
     ELSE LET ordered == podiumSort(earliestEntries(msgs, <<>>), <<>>)
          IN [i \in 1..Len(ordered) |-> ordered[i].uid]

computePodiumFromMessages(d, date, game) ==
  LET msgs == getMessages(d, date, game)
  IN IF Len(msgs) = 0 THEN <<>>
     ELSE LET ordered == podiumSort(earliestEntries(msgs, <<>>), <<>>)
          IN [i \in 1..Min(3, Len(ordered)) |-> ordered[i].uid]

\* the mutant of computePodium that answers the legacy list whenever it has entries
computePodiumLegacyFirst(d, date, game) ==
  IF date \in DOMAIN d.placements /\ Len(d.placements[date][game]) # 0
  THEN SubSeq(d.placements[date][game], 1, Min(3, Len(d.placements[date][game])))
  ELSE computePodiumFromMessages(d, date, game)

computePodium(d, date, game) ==
  IF Len(getMessages(d, date, game)) # 0 THEN computePodiumFromMessages(d, date, game)
  ELSE IF date \in DOMAIN d.placements
       THEN SubSeq(d.placements[date][game], 1, Min(3, Len(d.placements[date][game])))
       ELSE <<>>

(***************************************************************************)
(* Store operations.  Each takes the data before the call and yields the   *)
(* data after it, the value returned and whether flush() ran.              *)
(***************************************************************************)
InSeq(x, s) == \E i \in 1..Len(s) : s[i] = x

\* Array.prototype.indexOf, 0-based, -1 when absent
indexOf(s, x) ==
  IF InSeq(x, s) THEN (CHOOSE i \in 1..Len(s) : s[i] = x /\ \A j \in 1..(i - 1) : s[j] # x) - 1
  ELSE -1

\* the mutant of incrementCount that starts the date's counters anew
incrementCountFresh(d0, date, game) ==
  LET d == ensureDay(d0, date)
      c == d.counts[date][game]
  IN [d |-> [d EXCEPT !.counts[date] = [g \in Games |-> IF g = game THEN c + 1 ELSE 0]],
      ret |-> c + 1, flushed |-> TRUE]

incrementCount(d0, date, game) ==
  LET d == ensureDay(d0, date)
      c == d.counts[date][game]
  IN [d |-> [d EXCEPT !.counts[date][game] = c + 1], ret |-> c + 1, flushed |-> TRUE]

\* the mutant of getCounts that writes the store file
getCountsFlushing(d0, date) ==
  LET d == ensureDay(d0, date)
  IN [d |-> d, ret |-> d.counts[date], flushed |-> TRUE]

getCounts(d0, date) ==
  LET d == ensureDay(d0, date)
  IN [d |-> d, ret |-> d.counts[date], flushed |-> FALSE]

\* the mutant of placementsCount that reports half the podium
placementsCountHalf(d0, date, game) ==
  LET d == ensureDay(d0, date)
  IN [d |-> d, ret |-> Len(computePodium(d, date, game)) \div 2, flushed |-> FALSE]

placementsCount(d0, date, game) ==
  LET d == ensureDay(d0, date)
  IN [d |-> d, ret |-> Len(computePodium(d, date, game)), flushed |-> FALSE]

getPlacements(d0, date, game) ==
  LET d == ensureDay(d0, date)
  IN [d |-> d, ret |-> computePodium(d, date, game), flushed |-> FALSE]

\* the null held by earliestTsForUser before the user's first message: no string
NullTs == <<-1>>

\* the mutant of earliestTsLoop that takes the user's first recorded message
RECURSIVE firstTsLoop(_, _, _)
firstTsLoop(all, user, earliestTsForUser) ==
  IF all = <<>> THEN earliestTsForUser
  ELSE IF Head(all).user_id = user THEN Head(all).message_ts
  ELSE firstTsLoop(Tail(all), user, earliestTsForUser)

\* the loop of addPlacement that finds the user's earliest message_ts
RECURSIVE earliestTsLoop(_, _, _)
earliestTsLoop(all, user, earliestTsForUser) ==
  IF all = <<>> THEN earliestTsForUser
  ELSE LET w == Head(all)
       IN IF w.user_id # user THEN earliestTsLoop(Tail(all), user, earliestTsForUser)
          ELSE IF earliestTsForUser = NullTs THEN earliestTsLoop(Tail(all), user, w.message_ts)
          ELSE LET cur  == parseSlackTs(earliestTsForUser)
                   cand == parseSlackTs(w.message_ts)
               IN IF cand < cur \/ (cand = cur /\ StrLess(w.message_ts, earliestTsForUser))
                  THEN earliestTsLoop(Tail(all), user, w.message_ts)
                  ELSE earliestTsLoop(Tail(all), user, earliestTsForUser)

\* the mutant of eventExists that compares the wrong field, so that nothing ever exists
eventExistsWrongField(arr, user, ts) ==
  \E i \in 1..Len(arr) : arr[i].user_id = user /\ arr[i].channel_id = ts

\* arr.some((w) => w.user_id === user && w.message_ts === ts)
eventExists(arr, user, ts) ==
  \E i \in 1..Len(arr) : arr[i].user_id = user /\ arr[i].message_ts = ts

\* the mutant of legacyPlacement that places a user again
legacyPlacementAgain(d, date, game, user) ==
  LET arr == d.placements[date][game]
  IN IF Len(arr) >= 3
     THEN [d |-> d, ret |-> 0, flushed |-> FALSE, exists |-> FALSE]
     ELSE [d |-> [d EXCEPT !.placements[date][game] = Append(arr, user)],
           ret |-> Len(arr) + 1, flushed |-> TRUE, exists |-> FALSE]

\* the legacy path of addPlacement: arrival order, unique users, three places
legacyPlacement(d, date, game, user) ==
  LET arr == d.placements[date][game]
  IN IF InSeq(user, arr) \/ Len(arr) >= 3
     THEN [d |-> d, ret |-> 0, flushed |-> FALSE, exists |-> FALSE]
     ELSE [d |-> [d EXCEPT !.placements[date][game] = Append(arr, user)],
           ret |-> Len(arr) + 1, flushed |-> TRUE, exists |-> FALSE]

\* the mutant of timestampPlacement that stores a redelivered event again
timestampPlacementAlways(d, date, game, user, ts, channel_id, now) ==
  LET msg == [user_id |-> user, channel_id |-> channel_id,
              message_ts |-> ts, created_at |-> toISO(now)]
      arr == getMessages(d, date, game)
      exists == eventExists(arr, user, ts)
      d2 == [d EXCEPT !.messages[date][game] = Append(arr, msg)]
      earliestTsForUser == earliestTsLoop(getMessages(d2, date, game), user, NullTs)
      idx == indexOf(computePodium(d2, date, game), user)
  IN [d |-> d2,
      ret |-> IF idx # -1 /\ earliestTsForUser = ts THEN idx + 1 ELSE 0,
      flushed |-> TRUE, exists |-> exists]

\* the mutant of timestampPlacement that puts a new event at the head of the ledger
timestampPlacementPrepend(d, date, game, user, ts, channel_id, now) ==
  LET msg == [user_id |-> user, channel_id |-> channel_id,
              message_ts |-> ts, created_at |-> toISO(now)]
      arr == getMessages(d, date, game)
      exists == eventExists(arr, user, ts)
      d2 == IF exists THEN d ELSE [d EXCEPT !.messages[date][game] = <<msg>> \o arr]
      earliestTsForUser == earliestTsLoop(getMessages(d2, date, game), user, NullTs)
      idx == indexOf(computePodium(d2, date, game), user)
  IN [d |-> d2,
      ret |-> IF idx # -1 /\ earliestTsForUser = ts THEN idx + 1 ELSE 0,
      flushed |-> ~exists, exists |-> exists]

\* the mutant of timestampPlacement that answers 0 to a redelivered event
timestampPlacementOnce(d, date, game, user, ts, channel_id, now) ==
  LET msg == [user_id |-> user, channel_id |-> channel_id,
              message_ts |-> ts, created_at |-> toISO(now)]
      arr == getMessages(d, date, game)
      exists == eventExists(arr, user, ts)
      d2 == IF exists THEN d ELSE [d EXCEPT !.messages[date][game] = Append(arr, msg)]
      earliestTsForUser == earliestTsLoop(getMessages(d2, date, game), user, NullTs)
      idx == indexOf(computePodium(d2, date, game), user)
  IN [d |-> d2,
      ret |-> IF ~exists /\ idx # -1 /\ earliestTsForUser = ts THEN idx + 1 ELSE 0,
      flushed |-> ~exists, exists |-> exists]

\* the timestamp path of addPlacement: store the message unless it is already
\* there, then answer the user's place if this message is the user's earliest
timestampPlacement(d, date, game, user, ts, channel_id, now) ==
  LET msg == [user_id |-> user, channel_id |-> channel_id,
              message_ts |-> ts, created_at |-> toISO(now)]
      arr == getMessages(d, date, game)
      exists == eventExists(arr, user, ts)
      d2 == IF exists THEN d ELSE [d EXCEPT !.messages[date][game] = Append(arr, msg)]
      earliestTsForUser == earliestTsLoop(getMessages(d2, date, game), user, NullTs)
      idx == indexOf(computePodium(d2, date, game), user)
  IN [d |-> d2,
      ret |-> IF idx # -1 /\ earliestTsForUser = ts THEN idx + 1 ELSE 0,
      flushed |-> ~exists, exists |-> exists]

\* ts = <<>> is a missing (or empty) ts: !ts holds
addPlacement(d0, date, game, user, ts, channel_id, now) ==
  LET d == ensureDay(d0, date)
  IN IF ts = <<>> THEN legacyPlacement(d, date, game, user)
     ELSE timestampPlacement(d, date, game, user, ts, channel_id, now)

markDailyAnnounced(d, date, now) ==
  [d |-> [d EXCEPT !.daily_announced = Put(@, date, toISO(now))], flushed |-> TRUE]

hasDailyAnnounced(d, date) == date \in DOMAIN d.daily_announced

hasCrowned(d, weekKey) == weekKey \in DOMAIN d.weekly_crowned

\* the mutant of markCrowned that starts the object of markers anew
markCrownedAlone(d, weekKey, now) ==
  [d |-> [d EXCEPT !.weekly_crowned = Put(EmptyMap, weekKey, toISO(now))], flushed |-> TRUE]

markCrowned(d, weekKey, now) ==
  [d |-> [d EXCEPT !.weekly_crowned = Put(@, weekKey, toISO(now))], flushed |-> TRUE]

\* an object's entries keep the order of first insertion of their keys
KeyIndex(entries, key) ==
  IF \E i \in 1..Len(entries) : entries[i].key = key
  THEN CHOOSE i \in 1..Len(entries) : entries[i].key = key
  ELSE 0

SetEntry(entries, key, val) ==
  IF KeyIndex(entries, key) = 0 THEN Append(entries, [key |-> key, val |-> val])
  ELSE [entries EXCEPT ![KeyIndex(entries, key)] = [key |-> key, val |-> val]]

\* the loop of setCrown over the crowns on record: the greatest crowned_at in ms
RECURSIVE maxCrownMs(_, _)
maxCrownMs(kings, maxMs) ==
  IF kings = <<>> THEN maxMs
  ELSE LET m == toMillis(Head(kings).val.crowned_at)
       IN maxCrownMs(Tail(kings), IF m > maxMs THEN m ELSE maxMs)

\* the mutant of crownStamp that lets an equal clock reading through
crownStampLax(d, now) ==
  LET maxMs == maxCrownMs(d.weekly_kings, 0)
  IN IF now < maxMs THEN maxMs + 1 ELSE now

\* the crowned_at (ms) setCrown stamps when Date.now() reads now
crownStamp(d, now) ==
  LET maxMs == maxCrownMs(d.weekly_kings, 0)
  IN IF now <= maxMs THEN maxMs + 1 ELSE now

setCrown(d, weekKey, winners, points, now) ==
  LET val == [winners |-> winners, points |-> points, crowned_at |-> toISO(crownStamp(d, now))]
  IN [d |-> [d EXCEPT !.weekly_kings = SetEntry(@, weekKey, val)], flushed |-> TRUE]

\* the null of getLatestCrown
NoCrown == [weekKey |-> <<0, 0>>, winners |-> <<>>, points |-> -1, crowned_at |-> toISO(-1)]

\* the mutant of latestCrownLoop that answers the last entry of the object
RECURSIVE lastEntryLoop(_, _)
lastEntryLoop(kings, latest) ==
  IF kings = <<>> THEN latest
  ELSE LET e == Head(kings)
       IN lastEntryLoop(Tail(kings), [weekKey |-> e.key, winners |-> e.val.winners,
                                      points |-> e.val.points, crowned_at |-> e.val.crowned_at])

\* the loop of getLatestCrown
RECURSIVE latestCrownLoop(_, _)
latestCrownLoop(kings, latest) ==
  IF kings = <<>> THEN latest
  ELSE LET e   == Head(kings)
           cur == [weekKey |-> e.key, winners |-> e.val.winners,
                   points |-> e.val.points, crowned_at |-> e.val.crowned_at]
       IN IF latest = NoCrown THEN latestCrownLoop(Tail(kings), cur)
          ELSE IF toMillis(e.val.crowned_at) > toMillis(latest.crowned_at)
               THEN latestCrownLoop(Tail(kings), cur)
               ELSE latestCrownLoop(Tail(kings), latest)

getLatestCrown(d) == latestCrownLoop(d.weekly_kings, NoCrown)

\* res.set(uid, (res.get(uid) || 0) + pts) on the Map's entries
AddPoints(res, uid, pts) ==
  IF KeyIndex(res, uid) = 0 THEN Append(res, [key |-> uid, val |-> pts])
  ELSE [res EXCEPT ![KeyIndex(res, uid)].val = @ + pts]

\* the mutant of weights that pays the second place like the first
weightsFlat == <<5, 5, 1>>

weights == <<5, 3, 1>>

\* the mutant of podiumPoints that pays the first two places only
RECURSIVE podiumPointsTopTwo(_, _, _)
podiumPointsTopTwo(podium, idx, res) ==
  IF idx > Len(podium) \/ idx > 2 THEN res
  ELSE podiumPointsTopTwo(podium, idx + 1, AddPoints(res, podium[idx], weights[idx]))

RECURSIVE podiumPoints(_, _, _)
podiumPoints(podium, idx, res) ==
  IF idx > Len(podium) THEN res
  ELSE podiumPoints(podium, idx + 1,
         IF idx <= Len(weights) /\ weights[idx] > 0
         THEN AddPoints(res, podium[idx], weights[idx]) ELSE res)

RECURSIVE gamesPoints(_, _, _, _)
gamesPoints(d, date, gi, res) ==
  IF gi > Len(GameOrder) THEN res
  ELSE gamesPoints(d, date, gi + 1, podiumPoints(computePodium(d, date, GameOrder[gi]), 1, res))

RECURSIVE datesPoints(_, _, _, _)
datesPoints(d, date, end, res) ==
  IF date > end THEN res
  ELSE datesPoints(d, date + 1, end, gamesPoints(d, date, 1, res))

\* the mutant of totalsCompare that compares the points only
totalsComparePointsOnly(a, b) == b.points - a.points

\* (b.points - a.points) || a.user_id.localeCompare(b.user_id)
totalsCompare(a, b) ==
  IF b.points - a.points # 0 THEN b.points - a.points ELSE localeCompare(a.user_id, b.user_id)

RECURSIVE totalsInsert(_, _)
totalsInsert(x, s) ==
  IF s = <<>> THEN <<x>>
  ELSE IF totalsCompare(x, Head(s)) < 0 THEN <<x>> \o s
  ELSE <<Head(s)>> \o totalsInsert(x, Tail(s))

RECURSIVE totalsSort(_, _)
totalsSort(rows, acc) ==
  IF rows = <<>> THEN acc
  ELSE totalsSort(Tail(rows), totalsInsert(Head(rows), acc))

\* weekly_adjustments?.[weekKey] || {} as entries user -> pts
baselinesOf(d, weekKey) ==
  IF weekKey \in DOMAIN d.weekly_adjustments THEN d.weekly_adjustments[weekKey] ELSE <<>>

weeklyTotals(d, startDate, endDate) ==
  LET seeded == baselinesOf(d, weekKeyForRange(startDate, endDate))
      res    == datesPoints(d, startDate, endDate, seeded)
      rows   == [i \in 1..Len(res) |-> [user_id |-> res[i].key, points |-> res[i].val]]
  IN totalsSort(rows, <<>>)

(***************************************************************************)
(* State.                                                                  *)
(***************************************************************************)
VARIABLES
  data,       \* this.data of the running Store
  file,       \* the content of the store file
  last,       \* the last mutating call made on the Store itself: its arguments, what it returned
  lastCrown,  \* the arguments of the most recently executed setCrown and its Date.now()
  io,         \* the flush in progress: its step, the temporary file, the data before the call
  handlers,   \* the message handlers in flight, each at one of its awaits
  slack,      \* what the Slack client was made to do: posts and reactions
  limiter     \* the per-user RateLimiter of the chat feature and the clock it reads

vars == <<data, file, last, lastCrown, io, handlers, slack, limiter>>

\* the variables outside the Store
envVars == <<io, handlers, slack, limiter>>

\* one member of a JSON object
Member(name, value) == [name |-> name, value |-> value]

\* JSON.stringify(this.data): the members in the order of the object's keys; a
\* member whose value is undefined is left out.  weekly_adjustments = EmptyMap
\* stands for undefined (no query tells undefined from {}).
stringify(d) ==
  [complete |-> TRUE,
   members  |-> <<Member("placements", d.placements), Member("counts", d.counts),
                  Member("daily_announced", d.daily_announced),
                  Member("weekly_crowned", d.weekly_crowned),
                  Member("weekly_kings", d.weekly_kings)>>
                \o (IF d.weekly_adjustments = EmptyMap THEN <<>>
                    ELSE <<Member("weekly_adjustments", d.weekly_adjustments)>>)
                \o <<Member("messages", d.messages)>>]

\* flush(): the store file becomes the serialisation of this.data, by a write
\* of the temporary file and a rename
flush(d) == stringify(d)

Persist(r) == IF r.flushed THEN flush(r.d) ELSE file

HasMember(text, name) == \E i \in 1..Len(text.members) : text.members[i].name = name

MemberValue(text, name) ==
  text.members[CHOOSE i \in 1..Len(text.members) : text.members[i].name = name].value

\* the mutant of normalizeData that does not read the messages of the file
normalizeDataNoMessages(raw) ==
  [placements         |-> IF HasMember(raw, "placements") THEN MemberValue(raw, "placements")
                          ELSE initialData.placements,
   counts             |-> IF HasMember(raw, "counts") THEN MemberValue(raw, "counts")
                          ELSE initialData.counts,
   daily_announced    |-> IF HasMember(raw, "daily_announced")
                          THEN MemberValue(raw, "daily_announced")
                          ELSE initialData.daily_announced,
   weekly_crowned     |-> IF HasMember(raw, "weekly_crowned")
                          THEN MemberValue(raw, "weekly_crowned")
                          ELSE initialData.weekly_crowned,
   weekly_kings       |-> IF HasMember(raw, "weekly_kings") THEN MemberValue(raw, "weekly_kings")
                          ELSE <<>>,
   weekly_adjustments |-> IF HasMember(raw, "weekly_adjustments")
                          THEN MemberValue(raw, "weekly_adjustments")
                          ELSE EmptyMap,
   messages           |-> EmptyMap]

\* every field of the parsed file that is an object is taken, the others get
\* their default
normalizeData(raw) ==
  [placements         |-> IF HasMember(raw, "placements") THEN MemberValue(raw, "placements")
                          ELSE initialData.placements,
   counts             |-> IF HasMember(raw, "counts") THEN MemberValue(raw, "counts")
                          ELSE initialData.counts,
   daily_announced    |-> IF HasMember(raw, "daily_announced")
                          THEN MemberValue(raw, "daily_announced")
                          ELSE initialData.daily_announced,
   weekly_crowned     |-> IF HasMember(raw, "weekly_crowned")
                          THEN MemberValue(raw, "weekly_crowned")
                          ELSE initialData.weekly_crowned,
   weekly_kings       |-> IF HasMember(raw, "weekly_kings") THEN MemberValue(raw, "weekly_kings")
                          ELSE <<>>,
   weekly_adjustments |-> IF HasMember(raw, "weekly_adjustments")
                          THEN MemberValue(raw, "weekly_adjustments")
                          ELSE EmptyMap,
   messages           |-> IF HasMember(raw, "messages") THEN MemberValue(raw, "messages")
                          ELSE EmptyMap]

\* the constructor on an existing file: JSON.parse throws on a text that is not
\* complete, and the catch starts from initialData()
load(text) == IF text.complete THEN normalizeData(text) ELSE initialData

NoCall == [op |-> "none", date |-> 0, game |-> "boom", user |-> <<>>, ts |-> <<>>,
           ret |-> 0, exists |-> FALSE, week |-> <<0, 0>>, threw |-> FALSE]

NoCrownCall == [weekKey |-> <<0, 0>>, winners |-> <<>>, points |-> -1, now |-> -1]

\* no flush in progress, no temporary file
IdleIO == [pc |-> "idle", tmp |-> [complete |-> FALSE, members |-> <<>>], before |-> initialData]

\* the handler slots, all free
Idle == [pc |-> "idle", msg |-> 0]

NoHandlers == [h \in 1..MaxHandlers |-> Idle]

\* nothing posted, no reaction added
NoSlack == [daily |-> EmptyMap, crown |-> EmptyMap, reactions |-> {}]

\* new RateLimiter(opts): no bucket; the clock at the start of the process;
\* allowedAt notes, for each id, when consume last returned true
NoBuckets == [now |-> 0, buckets |-> EmptyMap, allowedAt |-> EmptyMap]

InitEnv ==
  /\ io = IdleIO
  /\ handlers = NoHandlers
  /\ slack = NoSlack
  /\ limiter = NoBuckets

\* new Store(file) where no file exists yet
Init ==
  /\ data = initialData
  /\ file = flush(initialData)
  /\ last = NoCall
  /\ lastCrown = NoCrownCall
  /\ InitEnv

(***************************************************************************)
(* Inputs.                                                                 *)
(***************************************************************************)
\* the channel "C1"
C1 == <<67, 49>>

\* 2025-03-03 (Monday) and 2025-03-04
Mon == 64
Tue == 65

CountOf(d, date, game) == IF date \in DOMAIN d.counts THEN d.counts[date][game] ELSE 0

(***************************************************************************)
(* Actions: one per Store operation.                                       *)
(***************************************************************************)
IncrementCount(date, game) ==
  /\ CountOf(data, date, game) < MaxCount
  /\ \E r \in {incrementCount(data, date, game)} :
        /\ data' = r.d
        /\ file' = Persist(r)
        /\ last' = [NoCall EXCEPT !.op = "incrementCount", !.date = date, !.game = game,
                                  !.ret = r.ret]
  /\ UNCHANGED lastCrown

GetCounts(date) ==
  /\ data' = getCounts(data, date).d
  /\ UNCHANGED <<file, last, lastCrown>>

PlacementsCount(date, game) ==
  /\ data' = placementsCount(data, date, game).d
  /\ UNCHANGED <<file, last, lastCrown>>

GetPlacements(date, game) ==
  /\ data' = getPlacements(data, date, game).d
  /\ UNCHANGED <<file, last, lastCrown>>

\* addPlacement(date, game, user): no ts
AddPlacementLegacy(date, game, user) ==
  /\ \E r \in {addPlacement(data, date, game, user, <<>>, <<>>, 0)} :
        /\ data' = r.d
        /\ file' = Persist(r)
        /\ last' = [NoCall EXCEPT !.op = "addPlacementLegacy", !.date = date, !.game = game,
                                  !.user = user, !.ret = r.ret]
  /\ UNCHANGED lastCrown

\* recordEvent: addPlacement(date, game, user, ts, channel_id)
RecordEvent(date, game, user, ts, channel_id, now) ==
  /\ ts # <<>>
  /\ \E r \in {addPlacement(data, date, game, user, ts, channel_id, now)} :
        /\ Len(getMessages(r.d, date, game)) <= MaxEvents
        /\ data' = r.d
        /\ file' = Persist(r)
        /\ last' = [NoCall EXCEPT !.op = "recordEvent", !.date = date, !.game = game,
                                  !.user = user, !.ts = ts, !.ret = r.ret,
                                  !.exists = r.exists]
  /\ UNCHANGED lastCrown

MarkDailyAnnounced(date, now) ==
  /\ \E r \in {markDailyAnnounced(data, date, now)} :
        /\ data' = r.d
        /\ file' = Persist(r)
  /\ last' = [NoCall EXCEPT !.op = "markDailyAnnounced", !.date = date]
  /\ UNCHANGED lastCrown

MarkCrowned(weekKey, now) ==
  /\ \E r \in {markCrowned(data, weekKey, now)} :
        /\ data' = r.d
        /\ file' = Persist(r)
  /\ last' = [NoCall EXCEPT !.op = "markCrowned", !.week = weekKey]
  /\ UNCHANGED lastCrown

SetCrown(weekKey, winners, points, now) ==
  /\ crownStamp(data, now) <= MaxStamp
  /\ \E r \in {setCrown(data, weekKey, winners, points, now)} :
        /\ data' = r.d
        /\ file' = Persist(r)
  /\ last' = [NoCall EXCEPT !.op = "setCrown"]
  /\ lastCrown' = [weekKey |-> weekKey, winners |-> winners, points |-> points, now |-> now]

(***************************************************************************)
(* SpecLedger: timestamped events of four users, several per user, arrive  *)
(* in any order and any number of times for one date+game.                 *)
(***************************************************************************)
LedgerEventsIn ==
  { <<U(1), T50>>, <<U(1), T100>>, <<U(1), T100b>>,
    <<U(2), T50>>, <<U(2), T100>>,
    <<U(3), T75>>, <<U(3), T100>>,
    <<U(4), T50>> }

NextLedger ==
  \E e \in LedgerEventsIn :
    RecordEvent(Mon, "boom", e[1], e[2], C1, 0) /\ UNCHANGED envVars

SpecLedger == Init /\ [][NextLedger]_vars

(***************************************************************************)
(* SpecOrder: every user sends one timestamped event for one date+game;    *)
(* the events are delivered in any order.                                  *)
(***************************************************************************)
OrderUsers == {U(1), U(2), U(3), U(4)}
OrderTs == {T50, T100, T100b}

HasEventOf(d, date, game, user) ==
  \E i \in 1..Len(getMessages(d, date, game)) : getMessages(d, date, game)[i].user_id = user

NextOrder ==
  \E user \in OrderUsers, ts \in OrderTs :
    /\ ~HasEventOf(data, Mon, "boom", user)
    /\ RecordEvent(Mon, "boom", user, ts, C1, 0)
    /\ UNCHANGED envVars

SpecOrder == Init /\ [][NextOrder]_vars

(***************************************************************************)
(* SpecCrown: crowns are set for two weeks, again and again, while the     *)
(* clock reads any value, equal to or before an earlier reading included.  *)
(***************************************************************************)
W10 == <<2025, 10>>
W11 == <<2025, 11>>

CrownWeeks == {W10, W11}

CrownsIn == {[winners |-> <<U(1)>>, points |-> 12], [winners |-> <<U(2), U(3)>>, points |-> 9]}

NextCrown ==
  \/ \E weekKey \in CrownWeeks, c \in CrownsIn, now \in 1..MaxClock :
       SetCrown(weekKey, c.winners, c.points, now) /\ UNCHANGED envVars
  \/ \E weekKey \in CrownWeeks, now \in 1..MaxClock :
       MarkCrowned(weekKey, now) /\ UNCHANGED envVars

SpecCrown == Init /\ [][NextCrown]_vars

(***************************************************************************)
(* SpecWeek: a store, opened on no file or on a file that carries a        *)
(* baseline for the week, takes legacy placements on Monday and            *)
(* timestamped events on Monday and Tuesday.                               *)
(***************************************************************************)
\* a store file with a baseline of 2 points for U1 in 2025-W10
BaselineFile ==
  stringify([initialData EXCEPT
               !.weekly_adjustments = Put(EmptyMap, W10, <<[key |-> U(1), val |-> 2]>>)])

\* new Store(file) where the file exists
InitFromFile(raw) ==
  /\ data = load(raw)
  /\ file = raw
  /\ last = NoCall
  /\ lastCrown = NoCrownCall
  /\ InitEnv

InitWeek == Init \/ InitFromFile(BaselineFile)

WeekLegacyUsers == {U(1), U(2), U(3)}

WeekEventsIn == { <<U(1), T50>>, <<U(2), T100>>, <<U(3), T75>> }

NextWeek ==
  \/ \E user \in WeekLegacyUsers :
       AddPlacementLegacy(Mon, "boom", user) /\ UNCHANGED envVars
  \/ \E e \in WeekEventsIn :
       RecordEvent(Tue, "hadeda", e[1], e[2], C1, 0) /\ UNCHANGED envVars
  \/ RecordEvent(Mon, "boom", U(4), T50, C1, 0) /\ UNCHANGED envVars

SpecWeek == InitWeek /\ [][NextWeek]_vars

(***************************************************************************)
(* What the podium of a ledger is, stated on the set of its events.        *)
(***************************************************************************)
LedgerOf(d) == getMessages(d, Mon, "boom")

PodiumOf(d) == getPlacements(d, Mon, "boom").ret

Ledger == LedgerOf(data)

Podium == PodiumOf(data)

UsersIn(msgs) == {msgs[i].user_id : i \in 1..Len(msgs)}

TsOf(msgs, u) == {msgs[i].message_ts : i \in {j \in 1..Len(msgs) : msgs[j].user_id = u}}

\* (numeric value, raw string) of s before that of t
TsBefore(s, t) ==
  \/ parseSlackTs(s) < parseSlackTs(t)
  \/ parseSlackTs(s) = parseSlackTs(t) /\ StrLess(s, t)

EarliestOf(msgs, u) == CHOOSE t \in TsOf(msgs, u) : \A t2 \in TsOf(msgs, u) : t2 = t \/ TsBefore(t, t2)

\* (numeric value, raw string, user_id) of u's earliest event before that of v
UserBefore(msgs, u, v) ==
  \/ TsBefore(EarliestOf(msgs, u), EarliestOf(msgs, v))
  \/ EarliestOf(msgs, u) = EarliestOf(msgs, v) /\ StrLess(u, v)

RankOf(msgs, u) == 1 + Cardinality({v \in UsersIn(msgs) : UserBefore(msgs, v, u)})

TopThree(msgs) ==
  [i \in 1..Min(3, Cardinality(UsersIn(msgs))) |-> CHOOSE u \in UsersIn(msgs) : RankOf(msgs, u) = i]

Distinct(s) == \A i, j \in 1..Len(s) : i # j => s[i] # s[j]

NoDuplicatePair(msgs) ==
  \A i, j \in 1..Len(msgs) :
    i # j => ~(msgs[i].user_id = msgs[j].user_id /\ msgs[i].message_ts = msgs[j].message_ts)

HasPair(msgs, u, ts) == \E i \in 1..Len(msgs) : msgs[i].user_id = u /\ msgs[i].message_ts = ts

\* the place an event (u, ts) earns in the ledger msgs that holds it
ExpectedPosition(msgs, u, ts) ==
  IF RankOf(msgs, u) <= 3 /\ ts = EarliestOf(msgs, u) THEN RankOf(msgs, u) ELSE 0

\* the store after the events evs were recorded, in their order, on an empty one
RECURSIVE Replay(_, _)
Replay(d, evs) ==
  IF evs = <<>> THEN d
  ELSE Replay(addPlacement(d, Mon, "boom", Head(evs).user_id, Head(evs).message_ts,
                           Head(evs).channel_id, 0).d,
              Tail(evs))

(***************************************************************************)
(* The podium of the timestamp ledger.                                     *)
(***************************************************************************)
\* C1: with one event per user, the podium read after all events were
\* recorded is the same for every order in which the events are delivered.
C1_OrderInvariance ==
  \A p \in Permutations(1..Len(Ledger)) :
    getPlacements(Replay(initialData, [i \in 1..Len(Ledger) |-> Ledger[p[i]]]), Mon, "boom").ret
      = Podium

\* four users, delivered against the order of their timestamps: the event
\* delivered last takes the first place
C1_Witness ==
  /\ Len(Ledger) = 4
  /\ Cardinality(UsersIn(Ledger)) = 4
  /\ TsBefore(Ledger[4].message_ts, Ledger[1].message_ts)
  /\ Len(Podium) = 3
  /\ Podium[1] = Ledger[4].user_id

\* C2: getPlacements is the first three of the distinct users of the ledger,
\* sorted by numeric earliest ts, then raw ts string, then user_id.
C2_PodiumIsTopThree == Podium = TopThree(Ledger)

\* arrivals (U1, 100.0), (U2, 50.0), (U3, 75.0) give the podium U2, U3, U1
C2_Witness ==
  /\ Len(Ledger) = 3
  /\ Ledger[1].user_id = U(1) /\ Ledger[1].message_ts = T100
  /\ Ledger[2].user_id = U(2) /\ Ledger[2].message_ts = T50
  /\ Ledger[3].user_id = U(3) /\ Ledger[3].message_ts = T75
  /\ Podium = <<U(2), U(3), U(1)>>

\* C3: the ledger never holds two events with the same (user_id, message_ts),
\* and a recordEvent whose pair is already in the ledger leaves it unchanged.
C3_OneEventPerPair ==
  [][/\ NoDuplicatePair(LedgerOf(data'))
     /\ (last'.op = "recordEvent" /\ HasPair(Ledger, last'.user, last'.ts))
          => LedgerOf(data') = Ledger]_vars

\* a redelivered event met a ledger of three events
C3_Witness ==
  /\ last.op = "recordEvent"
  /\ last.exists
  /\ Len(Ledger) = 3
  /\ NoDuplicatePair(Ledger)

C5_ReturnedPosition ==
  last.op = "recordEvent" => last.ret = ExpectedPosition(Ledger, last.user, last.ts)

\* a user with a later event on record sent an earlier one and got place 2
C5_Witness ==
  /\ last.op = "recordEvent"
  /\ ~last.exists
  /\ last.ret = 2
  /\ Cardinality(TsOf(Ledger, last.user)) >= 2
  /\ Ledger[Len(Ledger)].message_ts = last.ts

\* C6: the podium has at most three users, all distinct; placementsCount is
\* its length; a user ranked fourth or later is in the ledger, not on the podium.
C6_PodiumCap ==
  /\ Len(Podium) <= 3
  /\ Distinct(Podium)
  /\ placementsCount(data, Mon, "boom").ret = Len(Podium)
  /\ \A u \in UsersIn(Ledger) : RankOf(Ledger, u) >= 4 => ~InSeq(u, Podium)

\* a fourth user's event is in the ledger
C6_Witness ==
  /\ Cardinality(UsersIn(Ledger)) = 4
  /\ Len(Podium) = 3
  /\ \E u \in UsersIn(Ledger) : RankOf(Ledger, u) = 4 /\ ~InSeq(u, Podium)

\* the event (u, ts) sorts after the earliest event of the podium's third user
AfterThird(u, ts) ==
  /\ Len(Podium) = 3
  /\ \/ TsBefore(EarliestOf(Ledger, Podium[3]), ts)
     \/ EarliestOf(Ledger, Podium[3]) = ts /\ StrLess(Podium[3], u)

\* C7 as stated: once the podium has three users it is the same in every
\* later state, whatever recordEvent calls are made, and a later recordEvent
\* of a user who is not on it returns 0.
C7_ClosedAtThree ==
  [][Len(Podium) = 3
     => (/\ PodiumOf(data') = Podium
         /\ (last'.op = "recordEvent" /\ ~InSeq(last'.user, Podium)) => last'.ret = 0)]_vars

\* C7: once the podium has three users, a recordEvent whose event sorts after
\* the third user's earliest event leaves the podium unchanged, and returns 0
\* when its user is not on the podium.
C7_ClosedToLaterEvents ==
  [][(last'.op = "recordEvent" /\ AfterThird(last'.user, last'.ts))
     => (/\ PodiumOf(data') = Podium
         /\ ~InSeq(last'.user, Podium) => last'.ret = 0)]_vars

\* a fourth user's later event was recorded on a full podium and got 0
C7_Witness ==
  /\ last.op = "recordEvent"
  /\ ~last.exists
  /\ Len(Podium) = 3
  /\ ~InSeq(last.user, Podium)
  /\ RankOf(Ledger, last.user) = 4
  /\ last.ret = 0

(***************************************************************************)
(* Weekly totals.                                                          *)
(***************************************************************************)
WeekDates == {Mon, Tue}

\* the number of podiums in [start, end] on which u holds place k
PlaceCount(d, u, k, start, end) ==
  Cardinality({dg \in (start..end) \X Games :
                 /\ Len(computePodium(d, dg[1], dg[2])) >= k
                 /\ computePodium(d, dg[1], dg[2])[k] = u})

OnSomePodium(d, start, end) ==
  UNION {{computePodium(d, dg[1], dg[2])[i] : i \in 1..Len(computePodium(d, dg[1], dg[2]))} :
           dg \in (start..end) \X Games}

TotalsAreFiveThreeOne(d, start, end) ==
  LET t == weeklyTotals(d, start, end)
  IN /\ {t[i].user_id : i \in 1..Len(t)} = OnSomePodium(d, start, end)
     /\ \A i, j \in 1..Len(t) : i # j => t[i].user_id # t[j].user_id
     /\ \A i \in 1..Len(t) :
          t[i].points = 5 * PlaceCount(d, t[i].user_id, 1, start, end)
                        + 3 * PlaceCount(d, t[i].user_id, 2, start, end)
                        + PlaceCount(d, t[i].user_id, 3, start, end)

\* C8: with no baseline adjustments, weeklyTotals(start, end) gives every user
\* 5, 3 and 1 points per first, second and third place on the podiums of the
\* three games on the dates of [start, end]; other dates add nothing and a
\* user on no podium in range has no row.
C8_FiveThreeOne ==
  data.weekly_adjustments = EmptyMap
    => \A start, end \in WeekDates : TotalsAreFiveThreeOne(data, start, end)

\* no baseline, full podiums on both days, Monday's from the legacy list:
\* U1 has 10 points over the two days and 5 on Tuesday alone
C8_Witness ==
  /\ data.weekly_adjustments = EmptyMap
  /\ computePodium(data, Mon, "boom") = <<U(1), U(2), U(3)>>
  /\ computePodium(data, Tue, "hadeda") = <<U(1), U(3), U(2)>>
  /\ weeklyTotals(data, Mon, Tue) =
       <<[user_id |-> U(1), points |-> 10], [user_id |-> U(2), points |-> 4],
         [user_id |-> U(3), points |-> 4]>>
  /\ weeklyTotals(data, Tue, Tue)[1] = [user_id |-> U(1), points |-> 5]

(***************************************************************************)
(* Crowns.                                                                 *)
(***************************************************************************)
StampsOf(d) == [i \in 1..Len(d.weekly_kings) |-> toMillis(d.weekly_kings[i].val.crowned_at)]

\* the crowned_at (ms) on record for weekKey
StampFor(d, weekKey) == StampsOf(d)[KeyIndex(d.weekly_kings, weekKey)]

\* C9: each setCrown stamps a crowned_at strictly greater than every
\* crowned_at on record before it, whatever the clock reads, and no two
\* crowns on record carry equal crowned_at values.
C9_CrownMonotonic ==
  [][last'.op = "setCrown"
     => (/\ \A i \in 1..Len(StampsOf(data)) :
              StampFor(data', lastCrown'.weekKey) > StampsOf(data)[i]
         /\ Distinct(StampsOf(data')))]_vars

\* two crowns on record, the newer one set while the clock read no more than
\* the older one's stamp
C9_Witness ==
  /\ last.op = "setCrown"
  /\ Len(data.weekly_kings) = 2
  /\ \E i \in 1..2 :
       /\ data.weekly_kings[i].key # lastCrown.weekKey
       /\ lastCrown.now <= StampsOf(data)[i]
       /\ StampFor(data, lastCrown.weekKey) > StampsOf(data)[i]

\* C10: getLatestCrown returns the week key, winners and points of the most
\* recently executed setCrown, and none when no crown was ever set.
C10_LatestIsLastSet ==
  IF lastCrown = NoCrownCall THEN getLatestCrown(data) = NoCrown
  ELSE /\ getLatestCrown(data) # NoCrown
       /\ getLatestCrown(data).weekKey = lastCrown.weekKey
       /\ getLatestCrown(data).winners = lastCrown.winners
       /\ getLatestCrown(data).points = lastCrown.points

\* the week crowned first was crowned again after the other week, under a
\* clock reading below the stamps on record
C10_Witness ==
  /\ Len(data.weekly_kings) = 2
  /\ lastCrown.weekKey = data.weekly_kings[1].key
  /\ lastCrown.now < StampsOf(data)[2]
  /\ getLatestCrown(data).weekKey = data.weekly_kings[1].key

\* C13: hasCrowned(week) is false until the first markCrowned(week), true in
\* every state after it, and markCrowned(week) changes hasCrowned of no other
\* week.
C13_CrownedFlag ==
  /\ \A wk \in CrownWeeks : ~hasCrowned(data, wk)
  /\ [][\A wk \in CrownWeeks :
          /\ hasCrowned(data, wk) => hasCrowned(data', wk)
          /\ (last'.op = "markCrowned" /\ last'.week = wk) => hasCrowned(data', wk)
          /\ (~hasCrowned(data, wk) /\ hasCrowned(data', wk))
               => (last'.op = "markCrowned" /\ last'.week = wk)]_vars

\* one week was marked, the other not, and a crown was set afterwards
C13_Witness ==
  /\ hasCrowned(data, W10)
  /\ ~hasCrowned(data, W11)
  /\ last.op = "setCrown"
  /\ Len(data.weekly_kings) = 2

(***************************************************************************)
(* SpecStore: a store, opened on no file, on a file with a baseline or on  *)
(* a file that does not parse, takes every kind of mutating call; the      *)
(* write of a call may fail, and the process may restart between calls.    *)
(***************************************************************************)
\* a store file cut short: JSON.parse throws on it
CorruptFile == [complete |-> FALSE, members |-> <<Member("placements", EmptyMap)>>]

\* a mutating call whose flush() throws (writeFileSync or renameSync fails):
\* the assignment to this.data came first and stays, the store file is the
\* one before the call, and the error reaches the caller
FailedWrite(r, call) ==
  /\ r.flushed
  /\ data' = r.d
  /\ file' = file
  /\ last' = [call EXCEPT !.threw = TRUE]

IncrementCountFails(date, game) ==
  /\ CountOf(data, date, game) < MaxCount
  /\ \E r \in {incrementCount(data, date, game)} :
        FailedWrite(r, [NoCall EXCEPT !.op = "incrementCount", !.date = date, !.game = game])
  /\ UNCHANGED lastCrown

RecordEventFails(date, game, user, ts, channel_id, now) ==
  /\ ts # <<>>
  /\ \E r \in {addPlacement(data, date, game, user, ts, channel_id, now)} :
        /\ Len(getMessages(r.d, date, game)) <= MaxEvents
        /\ FailedWrite(r, [NoCall EXCEPT !.op = "recordEvent", !.date = date, !.game = game,
                                         !.user = user, !.ts = ts])
  /\ UNCHANGED lastCrown

MarkDailyAnnouncedFails(date, now) ==
  /\ \E r \in {markDailyAnnounced(data, date, now)} :
        FailedWrite(r, [NoCall EXCEPT !.op = "markDailyAnnounced", !.date = date])
  /\ UNCHANGED lastCrown

MarkCrownedFails(weekKey, now) ==
  /\ \E r \in {markCrowned(data, weekKey, now)} :
        FailedWrite(r, [NoCall EXCEPT !.op = "markCrowned", !.week = weekKey])
  /\ UNCHANGED lastCrown

SetCrownFails(weekKey, winners, points, now) ==
  /\ crownStamp(data, now) <= MaxStamp
  /\ \E r \in {setCrown(data, weekKey, winners, points, now)} :
        FailedWrite(r, [NoCall EXCEPT !.op = "setCrown"])
  /\ lastCrown' = [weekKey |-> weekKey, winners |-> winners, points |-> points, now |-> now]

\* the process ends and a new Store is constructed on the store file
Restart ==
  /\ data' = load(file)
  /\ file' = file
  /\ last' = [NoCall EXCEPT !.op = "restart"]
  /\ lastCrown' = NoCrownCall

StoreEventsIn == { <<U(1), T100>>, <<U(2), T50>> }

InitStore == Init \/ InitFromFile(BaselineFile) \/ InitFromFile(CorruptFile)

NextStore ==
  \/ IncrementCount(Mon, "boom") /\ UNCHANGED envVars
  \/ \E e \in StoreEventsIn : RecordEvent(Mon, "boom", e[1], e[2], C1, 0) /\ UNCHANGED envVars
  \/ MarkDailyAnnounced(Mon, 1) /\ UNCHANGED envVars
  \/ MarkCrowned(W10, 1) /\ UNCHANGED envVars
  \/ SetCrown(W10, <<U(1)>>, 5, 1) /\ UNCHANGED envVars
  \/ GetCounts(Tue) /\ UNCHANGED envVars
  \/ Restart /\ UNCHANGED envVars

SpecStore == InitStore /\ [][NextStore]_vars

(***************************************************************************)
(* SpecFailure: the write of any mutating call may fail.                   *)
(***************************************************************************)
NextFailure ==
  \/ IncrementCount(Mon, "boom") /\ UNCHANGED envVars
  \/ RecordEvent(Mon, "boom", U(1), T100, C1, 0) /\ UNCHANGED envVars
  \/ MarkDailyAnnounced(Mon, 1) /\ UNCHANGED envVars
  \/ MarkCrowned(W10, 1) /\ UNCHANGED envVars
  \/ SetCrown(W10, <<U(1)>>, 5, 1) /\ UNCHANGED envVars
  \/ IncrementCountFails(Mon, "boom") /\ UNCHANGED envVars
  \/ RecordEventFails(Mon, "boom", U(1), T100, C1, 0) /\ UNCHANGED envVars
  \/ MarkDailyAnnouncedFails(Mon, 1) /\ UNCHANGED envVars
  \/ MarkCrownedFails(W10, 1) /\ UNCHANGED envVars
  \/ SetCrownFails(W10, <<U(1)>>, 5, 1) /\ UNCHANGED envVars
  \/ Restart /\ UNCHANGED envVars

SpecFailure == Init /\ [][NextFailure]_vars

\* what every query of the Store answers on the dates, games and weeks in use
Answers(d) ==
  [placements |-> [date \in WeekDates |-> [g \in Games |-> getPlacements(d, date, g).ret]],
   filled     |-> [date \in WeekDates |-> [g \in Games |-> placementsCount(d, date, g).ret]],
   counts     |-> [date \in WeekDates |-> getCounts(d, date).ret],
   announced  |-> [date \in WeekDates |-> hasDailyAnnounced(d, date)],
   crowned    |-> [wk \in CrownWeeks |-> hasCrowned(d, wk)],
   latest     |-> getLatestCrown(d),
   totals     |-> weeklyTotals(d, Mon, Tue)]

\* the store file and the running Store agree: a new Store constructed from the
\* file answers every query as the running Store does
Agree(d, text) == Answers(load(text)) = Answers(d)

\* C15: after construction and after any sequence of completed mutating calls,
\* queries and restarts, a new Store constructed from the store file answers
\* every query as the running Store does.
C15_Durable == Agree(data, file)

C15_Witness ==
  /\ last.op = "setCrown" /\ ~last.threw
  /\ Len(getMessages(data, Mon, "boom")) = 2
  /\ CountOf(data, Mon, "boom") = 2
  /\ hasDailyAnnounced(data, Mon) /\ hasCrowned(data, W10)
  /\ Tue \in DOMAIN data.counts
  /\ data # load(file)

\* C17: a mutating call whose durable write fails leaves the in-memory state
\* as it was: every query answers what it answered before the call.
C17_FailedWriteRollsBack == [][last'.threw => Answers(data') = Answers(data)]_vars

Disk == [file |-> file, tmp |-> io.tmp]

EmptyText == [complete |-> FALSE, members |-> <<>>]

\* the mutant of flushPath that writes the text to the store file itself
flushPathInPlace == "file"

\* const tmp = `${this.file}.tmp`: the path writeFileSync writes to
flushPath == "tmp"

\* writeFileSync opens its path with flag 'w': the file is emptied
openForWrite(fs, path) == [fs EXCEPT ![path] = EmptyText]

\* one write of writeFileSync: the next member of the text reaches the path;
\* the text on the path is complete after its last member
writeNext(fs, path, text) ==
  LET n == Len(fs[path].members) + 1
  IN [fs EXCEPT ![path] = [complete |-> n = Len(text.members),
                           members  |-> Append(@.members, text.members[n])]]

\* renameSync(tmp, this.file): one atomic step
renameSync(fs, from, to) == [fs EXCEPT ![to] = fs[from]]

\* a mutating call up to the opening of the temporary file
BeginCall(r, call) ==
  /\ io.pc = "idle"
  /\ data' = r.d
  /\ last' = call
  /\ IF r.flushed
     THEN \E fs \in {openForWrite(Disk, flushPath)} :
            /\ file' = fs.file
            /\ io' = [pc |-> "writing", tmp |-> fs.tmp, before |-> data]
     ELSE UNCHANGED <<file, io>>
  /\ UNCHANGED <<lastCrown, limiter, handlers, slack>>

IncrementCountBegins(date, game) ==
  /\ CountOf(data, date, game) < MaxCount
  /\ BeginCall(incrementCount(data, date, game),
               [NoCall EXCEPT !.op = "incrementCount", !.date = date, !.game = game])

RecordEventBegins(date, game, user, ts, channel_id, now) ==
  /\ ts # <<>>
  /\ \E r \in {addPlacement(data, date, game, user, ts, channel_id, now)} :
        /\ Len(getMessages(r.d, date, game)) <= MaxEvents
        /\ BeginCall(r, [NoCall EXCEPT !.op = "recordEvent", !.date = date, !.game = game,
                                       !.user = user, !.ts = ts, !.ret = r.ret,
                                       !.exists = r.exists])

MarkDailyAnnouncedBegins(date, now) ==
  BeginCall(markDailyAnnounced(data, date, now),
            [NoCall EXCEPT !.op = "markDailyAnnounced", !.date = date])

\* writeFileSync writes the next part of JSON.stringify(this.data)
WriteStep ==
  /\ io.pc = "writing"
  /\ \E fs \in {writeNext(Disk, flushPath, stringify(data))} :
        /\ file' = fs.file
        /\ io' = [io EXCEPT !.tmp = fs.tmp,
                            !.pc = IF fs[flushPath].complete THEN "written" ELSE "writing"]
  /\ UNCHANGED <<data, last, lastCrown, limiter, handlers, slack>>

RenameStep ==
  /\ io.pc = "written"
  /\ \E fs \in {renameSync(Disk, flushPath, "file")} :
        /\ file' = fs.file
        /\ io' = [io EXCEPT !.tmp = fs.tmp, !.pc = "idle"]
  /\ UNCHANGED <<data, last, lastCrown, limiter, handlers, slack>>

\* the process dies where it is; a new Store is constructed on the store file,
\* the temporary file stays as it was left
Crash ==
  /\ data' = load(file)
  /\ file' = file
  /\ last' = [NoCall EXCEPT !.op = "restart"]
  /\ io' = [pc |-> "idle", tmp |-> io.tmp, before |-> load(file)]
  /\ UNCHANGED <<lastCrown, limiter, handlers, slack>>

NextFlush ==
  \/ IncrementCountBegins(Mon, "boom")
  \/ \E e \in StoreEventsIn : RecordEventBegins(Mon, "boom", e[1], e[2], C1, 0)
  \/ MarkDailyAnnouncedBegins(Mon, 1)
  \/ WriteStep
  \/ RenameStep
  \/ Crash

SpecFlush == Init /\ [][NextFlush]_vars

\* C16: at every step of a flush, and after a crash at any step, the store file
\* is a complete text: the state before the mutating call in progress or the
\* state after it.
C16_AtomicFile ==
  /\ file.complete
  /\ file = stringify(io.before) \/ file = stringify(data)

C16_Witness ==
  /\ io.pc = "writing" /\ Len(io.tmp.members) = 3
  /\ last.op = "recordEvent"
  /\ file = stringify(io.before) /\ file # stringify(data)
  /\ Len(getMessages(data, Mon, "boom")) = 2

(***************************************************************************)
(* SpecMalformed: addPlacement is called with well-formed and malformed    *)
(* user ids and timestamps for one date+game.                              *)
(***************************************************************************)
\* the timestamp "a" (Number("a") is NaN) and the empty string
TsLetter == <<97>>

TsEmpty == <<>>

\* addPlacement(date, game, user, ts, channel_id) with any strings
AddPlacement(date, game, user, ts, channel_id, now) ==
  /\ \E r \in {addPlacement(data, date, game, user, ts, channel_id, now)} :
        /\ Len(getMessages(r.d, date, game)) <= MaxEvents
        /\ data' = r.d
        /\ file' = Persist(r)
        /\ last' = [NoCall EXCEPT !.op = "addPlacement", !.date = date, !.game = game,
                                  !.user = user, !.ts = ts, !.ret = r.ret,
                                  !.exists = r.exists]
  /\ UNCHANGED lastCrown

MalformedUsers == {U(1), <<>>}

MalformedTs == {T50, TsLetter, TsEmpty}

NextMalformed ==
  \E user \in MalformedUsers, ts \in MalformedTs :
    AddPlacement(Mon, "boom", user, ts, C1, 0) /\ UNCHANGED envVars

SpecMalformed == Init /\ [][NextMalformed]_vars

\* a timestamp that is not a number or is empty, or an empty user id
Malformed(user, ts) == user = <<>> \/ ts = <<>> \/ ToNumber(ts).nan

LegacyOf(d) == IF Mon \in DOMAIN d.placements THEN d.placements[Mon]["boom"] ELSE <<>>

\* C19: a recordEvent call with a malformed timestamp or user id returns 0 and
\* leaves the ledger, the legacy placements and the podium as they were.
C19_MalformedIsNoOp ==
  [][(last'.op = "addPlacement" /\ Malformed(last'.user, last'.ts))
       => /\ last'.ret = 0
          /\ LedgerOf(data') = LedgerOf(data)
          /\ LegacyOf(data') = LegacyOf(data)
          /\ PodiumOf(data') = PodiumOf(data)]_vars

\* the data with the legacy list emptied for every date+game that has raw events
LegacyErased(d) ==
  [d EXCEPT !.placements =
     [date \in DOMAIN @ |->
        [g \in Games |-> IF Len(getMessages(d, date, g)) # 0 THEN <<>> ELSE @[date][g]]]]

\* C20: getPlacements, placementsCount and weeklyTotals answer the same with
\* the legacy list of every date+game that has raw events emptied, the podium
\* of such a date+game is the top three of its raw events, and the podium of a
\* date+game without raw events is its legacy list.
C20_LegacyIsFallback ==
  /\ \A date \in WeekDates, g \in Games :
        /\ getPlacements(data, date, g).ret = getPlacements(LegacyErased(data), date, g).ret
        /\ placementsCount(data, date, g).ret = placementsCount(LegacyErased(data), date, g).ret
  /\ weeklyTotals(data, Mon, Tue) = weeklyTotals(LegacyErased(data), Mon, Tue)
  /\ IF Ledger # <<>> THEN Podium = TopThree(Ledger) ELSE Podium = LegacyOf(data)

C20_Witness ==
  /\ Ledger # <<>> /\ Len(LegacyOf(data)) = 3
  /\ Podium = <<U(4)>>
  /\ last.op = "addPlacementLegacy" /\ last.ret = 3
  /\ Len(getMessages(data, Tue, "hadeda")) = 0
  /\ weeklyTotals(data, Mon, Tue) = <<[user_id |-> U(4), points |-> 5]>>

(***************************************************************************)
(* The message handler of registerBoomFeature (features/boom/index.ts).    *)
(* A handler runs from the delivery of a message to its first await, and   *)
(* from the end of each await to the next one or to its return; between    *)
(* these segments other handlers run.  Second 0 of the model's clock is    *)
(* 2025-03-03T00:00:00 in the zone TZ.                                     *)
(***************************************************************************)
\* 2025-03-07 (Friday)
Fri == 68

\* String(n) of a natural number
RECURSIVE Decimal(_)
Decimal(n) == IF n < 10 THEN <<48 + n>> ELSE Decimal(n \div 10) \o <<48 + (n % 10)>>

\* the Slack ts of second sec after 12:00:00 on Friday
FriTs(sec) == Decimal(4 * 86400 + 12 * 3600 + sec) \o <<46, 48>>

\* the Slack ts of second sec after 00:00:00 on the day of ordinal date
DayTs(date, sec) == Decimal((date - Mon) * 86400 + sec) \o <<46, 48>>

Noon == 12 * 3600

\* tsStr.split('.')[0]
RECURSIVE beforeDot(_)
beforeDot(s) ==
  IF s = <<>> \/ Head(s) = 46 THEN <<>> ELSE <<Head(s)>> \o beforeDot(Tail(s))

\* Math.floor(Number(tsStr.split('.')[0] || '0')); NaN is -1
tsSecondsOf(tsStr) ==
  LET n == ToNumber(IF beforeDot(tsStr) = <<>> THEN <<48>> ELSE beforeDot(tsStr))
  IN IF n.nan THEN -1 ELSE n.v \div Unit

\* the days after Friday 2025-03-07 that the model's messages fall on
Sat == Fri + 1
Wed == Fri - 2

\* 2025-03-21, a Friday
HumanRightsDay == Fri + 14

\* an element of the JSON value of a holiday file: a string of the form
\* YYYY-MM-DD (its date), another string, or a value that is no string
DateString(date) == [isString |-> TRUE, isDate |-> TRUE, date |-> date]
OtherString == [isString |-> TRUE, isDate |-> FALSE, date |-> 0]
NoString == [isString |-> FALSE, isDate |-> FALSE, date |-> 0]

\* data/holidays/za-<year>.json: not there, text that JSON.parse rejects, a
\* JSON value that is no array (an object that holds the elements), an array
MissingFile == [kind |-> "missing", elements |-> {}]
BrokenFile == [kind |-> "unparsable", elements |-> {}]
ObjectFile(elements) == [kind |-> "notArray", elements |-> elements]
ArrayFile(elements) == [kind |-> "array", elements |-> elements]

\* the mutant of loadYearHolidays that does not test Array.isArray
loadYearHolidaysAnyValue(year, files, extra) ==
  {e.date : e \in {x \in files[year].elements : x.isString /\ x.isDate}}
    \cup {d \in extra : YearOf(d) = year}

\* loadYearHolidays(year) with the holiday files of the years and the dates
\* of the HOLIDAYS variable: the date strings of the file's array, none when
\* the file is missing, is no array or throws in the try block, and the
\* dates of HOLIDAYS that start with the year
loadYearHolidays(year, files, extra) ==
  (IF files[year].kind = "array"
   THEN {e.date : e \in {x \in files[year].elements : x.isString /\ x.isDate}}
   ELSE {})
    \cup {d \in extra : YearOf(d) = year}

\* the files the tests seed: za-2025.json holds 2025-03-21, no file for 2024
SeededFiles == [year \in {2024, 2025} |->
                  IF year = 2025 THEN ArrayFile({DateString(HumanRightsDay)}) ELSE MissingFile]

\* loadYearHolidays(2025) with the seeded files; HOLIDAYS is not set
Holidays == loadYearHolidays(2025, SeededFiles, {})

\* set.has(date)
isHolidayDate(date) == date \in Holidays

\* the mutant of localDayInfo for which Saturday is a workday
localDayInfoSixDays(tsSeconds) ==
  IF tsSeconds < 0 THEN [date |-> 0, weekday |-> 0, isWorkday |-> FALSE]
  ELSE LET date == Mon + (tsSeconds \div 86400)
           weekday == ((date - 1) % 7) + 1
       IN [date |-> date, weekday |-> weekday,
           isWorkday |-> weekday >= 1 /\ weekday <= 6 /\ ~isHolidayDate(date)]

\* localDayInfo(tsSeconds); an invalid DateTime has no date and no weekday
localDayInfo(tsSeconds) ==
  IF tsSeconds < 0 THEN [date |-> 0, weekday |-> 0, isWorkday |-> FALSE]
  ELSE LET date == Mon + (tsSeconds \div 86400)
           weekday == ((date - 1) % 7) + 1
       IN [date |-> date, weekday |-> weekday,
           isWorkday |-> weekday >= 1 /\ weekday <= 5 /\ ~isHolidayDate(date)]

\* the mutant of inNoonWindow that stays true after the noon hour
inNoonWindowOpenEnd(tsSeconds) == tsSeconds >= 0 /\ (tsSeconds % 86400) \div 3600 >= 12

inNoonWindow(tsSeconds) == tsSeconds >= 0 /\ (tsSeconds % 86400) \div 3600 = 12

\* the mutant of detectGameFromMessage that takes :wednesday-boom: on any day
detectGameFromMessageAnyDay(text, weekday) ==
  IF text = ":boom:" THEN "boom"
  ELSE IF text = ":hadeda-boom:" THEN "hadeda"
  ELSE IF text = ":wednesday-boom:" THEN "wednesday"
  ELSE "none"

\* null is "none"
detectGameFromMessage(text, weekday) ==
  IF text = ":boom:" THEN "boom"
  ELSE IF text = ":hadeda-boom:" THEN "hadeda"
  ELSE IF text = ":wednesday-boom:" /\ weekday = 3 THEN "wednesday"
  ELSE "none"

detectAnyGameEmoji(text) ==
  IF text = ":boom:" THEN "boom"
  ELSE IF text = ":hadeda-boom:" THEN "hadeda"
  ELSE IF text = ":wednesday-boom:" THEN "wednesday"
  ELSE "none"

weekKeyFor(date) == <<YearOf(date), WeekNumberOf(date)>>

isFriday(date) == ((date - 1) % 7) + 1 = 5

weekStartEnd(date) ==
  [start |-> date - ((date - 1) % 7), end |-> date - ((date - 1) % 7) + 4]

\* the mutant of neededGames that requires wednesday on every day
neededGamesEveryDay(weekday) == {"boom", "hadeda", "wednesday"}

neededGames(weekday) == IF weekday = 3 THEN {"boom", "hadeda", "wednesday"} ELSE {"boom", "hadeda"}

\* what the handler derives from a message before it touches the store
MsgInfo(m) ==
  LET tsStr == IF m.ts = <<>> THEN <<48>> ELSE m.ts
      tsSeconds == tsSecondsOf(tsStr)
      info == localDayInfo(tsSeconds)
  IN [tsStr |-> tsStr, date |-> info.date, weekday |-> info.weekday,
      isWorkday |-> info.isWorkday, inWindow |-> inNoonWindow(tsSeconds),
      anyEmoji |-> detectAnyGameEmoji(m.text),
      game |-> detectGameFromMessage(m.text, info.weekday)]

\* the mutant of topRows that names the first row only
topRowsFirstOnly(rows, topPoints) == <<rows[1].user_id>>

RECURSIVE topRows(_, _)
topRows(rows, topPoints) ==
  IF rows = <<>> THEN <<>>
  ELSE (IF Head(rows).points = topPoints THEN <<Head(rows).user_id>> ELSE <<>>)
       \o topRows(Tail(rows), topPoints)

\* the valid posts of one user, handled one after the other: incrementCount
\* and addPlacement for each
RECURSIVE AfterPosts(_, _, _, _)
AfterPosts(d, game, user, secs) ==
  IF secs = <<>> THEN d
  ELSE AfterPosts(addPlacement(incrementCount(d, Fri, game).d, Fri, game, user,
                               FriTs(Head(secs)), C1, 0).d,
                  game, user, Tail(secs))

\* the same for posts of any day
RECURSIVE AfterPostsOn(_, _, _, _, _)
AfterPostsOn(d, date, game, user, secs) ==
  IF secs = <<>> THEN d
  ELSE AfterPostsOn(addPlacement(incrementCount(d, date, game).d, date, game, user,
                                 DayTs(date, Noon + Head(secs)), C1, 0).d,
                    date, game, user, Tail(secs))

\* the store file on Friday at 12:00:04: U3 has posted :hadeda-boom: three times
FridayFile == stringify(AfterPosts(initialData, "hadeda", U(3), <<1, 2, 3>>))

\* the messages Slack delivers, each any number of times.  On Friday: two
\* :boom: in the window and one an hour late.  On Saturday a :boom: in the
\* window, on the holiday a :boom: an hour late.  A :wednesday-boom: in the
\* window on Wednesday and on Friday, and a :hadeda-boom: in the window on
\* Friday.
MsgsIn ==
  << [user |-> U(1), text |-> ":boom:", ts |-> FriTs(5), channel |-> C1],
     [user |-> U(2), text |-> ":boom:", ts |-> FriTs(7), channel |-> C1],
     [user |-> U(1), text |-> ":boom:", ts |-> FriTs(3600), channel |-> C1],
     [user |-> U(1), text |-> ":boom:", ts |-> DayTs(Sat, Noon + 5), channel |-> C1],
     [user |-> U(1), text |-> ":boom:", ts |-> DayTs(HumanRightsDay, Noon + 3600), channel |-> C1],
     [user |-> U(1), text |-> ":wednesday-boom:", ts |-> DayTs(Wed, Noon + 5), channel |-> C1],
     [user |-> U(2), text |-> ":wednesday-boom:", ts |-> FriTs(9), channel |-> C1],
     [user |-> U(1), text |-> ":hadeda-boom:", ts |-> FriTs(11), channel |-> C1] >>

\* the messages of Friday
FridayMsgs == {1, 2, 3}

\* MsgInfo is pure: its values on the model's messages, computed once
MsgInfos == [m \in 1..Len(MsgsIn) |-> MsgInfo(MsgsIn[m])]

At(m, pc) == IF pc = "idle" THEN Idle ELSE [pc |-> pc, msg |-> m]

Bump(f, k) == Put(f, k, IF k \in DOMAIN f THEN f[k] + 1 ELSE 1)

\* handler h, on message m, is at an await (or has returned) with the Store's
\* data d and the store file f
Reach(h, m, pc, d, f) ==
  /\ data' = d
  /\ file' = f
  /\ handlers' = [handlers EXCEPT ![h] = At(m, pc)]

\* the Friday crown: from the check of hasCrowned to the await of the post, or
\* to the handler's return
CrownSection(h, m, d, f, now) ==
  \E i \in {MsgInfos[m]} :
    \E wk \in {weekKeyFor(i.date)}, we \in {weekStartEnd(i.date)} :
      IF i.game = "boom" /\ isFriday(i.date) /\ ~hasCrowned(d, wk)
      THEN \E leaderboard \in {weeklyTotals(d, we.start, we.end)} :
             IF Len(leaderboard) # 0
             THEN \E topPoints \in {leaderboard[1].points} :
                    \E d2 \in {setCrown(d, wk, topRows(leaderboard, topPoints), topPoints, now).d} :
                      Reach(h, m, "crownPost", d2, stringify(d2))
             ELSE \E d2 \in {markCrowned(d, wk, now).d} :
                    Reach(h, m, "idle", d2, stringify(d2))
      ELSE Reach(h, m, "idle", d, f)

\* the daily announcement: from getCounts to the await of the post, or on to
\* the Friday crown
DailySection(h, m, d, f, now) ==
  \E i \in {MsgInfos[m]} :
    \E counts \in {getCounts(d, i.date).ret} :
      IF (\A g \in neededGames(i.weekday) : counts[g] >= 3) /\ ~hasDailyAnnounced(d, i.date)
      THEN Reach(h, m, "dailyPost", d, f)
      ELSE CrownSection(h, m, d, f, now)

\* Slack delivers message m and a free handler runs to its first await or to
\* its return; Count is db.incrementCount
DeliverBy(Count(_, _, _), h, m, now) ==
  /\ handlers[h].pc = "idle"
  /\ \E i \in {MsgInfos[m]} :
       \E d1 \in {ensureDay(data, i.date)} :
         IF i.anyEmoji # "none"
            /\ \/ ~i.inWindow
               \/ placementsCount(d1, i.date, i.anyEmoji).ret >= 3
               \/ \A g \in neededGames(i.weekday) : placementsCount(d1, i.date, g).ret >= 3
         THEN Reach(h, m, "clown", d1, file)
         ELSE IF ~i.isWorkday \/ ~i.inWindow \/ i.game = "none"
         THEN Reach(h, m, "idle", d1, file)
         ELSE \E r1 \in {Count(d1, i.date, i.game)} :
                /\ r1.ret <= MaxValid
                /\ \E r2 \in {addPlacement(r1.d, i.date, i.game, MsgsIn[m].user, i.tsStr,
                                          MsgsIn[m].channel, now)} :
                     IF r2.ret = 1
                     THEN Reach(h, m, "react", r2.d, stringify(r2.d))
                     ELSE \E f \in {stringify(r2.d)} : DailySection(h, m, r2.d, f, now)
  /\ UNCHANGED <<last, lastCrown, limiter, io, slack>>

Deliver(h, m, now) == DeliverBy(incrementCount, h, m, now)

\* reactions.add of the clown ends, with or without an error: the handler returns
ClownDone(h, ok) ==
  /\ handlers[h].pc = "clown"
  /\ handlers' = [handlers EXCEPT ![h] = Idle]
  /\ slack' = IF ok THEN [slack EXCEPT !.reactions = @ \cup {<<handlers[h].msg, "clown_face">>}]
              ELSE slack
  /\ UNCHANGED <<data, file, last, lastCrown, limiter, io>>

\* reactions.add for the first place ends, with or without an error
ReactionDone(h, ok, now) ==
  /\ handlers[h].pc = "react"
  /\ DailySection(h, handlers[h].msg, data, file, now)
  /\ slack' = IF ok
              THEN [slack EXCEPT !.reactions =
                      @ \cup {<<handlers[h].msg, MsgInfos[handlers[h].msg].game>>}]
              ELSE slack
  /\ UNCHANGED <<last, lastCrown, limiter, io>>

\* chat.postMessage of the Daily Podium ends: posted, then markDailyAnnounced
\* and the Friday crown; or an error, which ends the handler in its catch
DailyPostDone(h, ok, now) ==
  /\ handlers[h].pc = "dailyPost"
  /\ IF ok
     THEN \E date \in {MsgInfos[handlers[h].msg].date} :
            \E d \in {markDailyAnnounced(data, date, now).d} :
              /\ \E f \in {stringify(d)} : CrownSection(h, handlers[h].msg, d, f, now)
              /\ slack' = [slack EXCEPT !.daily = Bump(@, date)]
     ELSE /\ handlers' = [handlers EXCEPT ![h] = Idle]
          /\ UNCHANGED <<data, file, slack>>
  /\ UNCHANGED <<last, lastCrown, limiter, io>>

\* chat.postMessage of the Weekly Crown ends: posted, then markCrowned; or an
\* error, which ends the handler in its catch
CrownPostDone(h, ok, now) ==
  /\ handlers[h].pc = "crownPost"
  /\ IF ok
     THEN \E wk \in {weekKeyFor(MsgInfos[handlers[h].msg].date)} :
            \E d \in {markCrowned(data, wk, now).d} :
              /\ data' = d
              /\ file' = stringify(d)
              /\ slack' = [slack EXCEPT !.crown = Bump(@, wk)]
     ELSE UNCHANGED <<data, file, slack>>
  /\ handlers' = [handlers EXCEPT ![h] = Idle]
  /\ UNCHANGED <<last, lastCrown, limiter, io>>

(***************************************************************************)
(* SpecHandler: on Friday, after three :hadeda-boom: posts, the process is *)
(* restarted and :boom: messages are delivered, each any number of times,  *)
(* to handlers that interleave at their awaits.                            *)
(***************************************************************************)
HandlerNext(msgs) ==
  \/ \E h \in 1..MaxHandlers, m \in msgs : Deliver(h, m, 1)
  \/ \E h \in 1..MaxHandlers, ok \in BOOLEAN : ClownDone(h, ok)
  \/ \E h \in 1..MaxHandlers, ok \in BOOLEAN : ReactionDone(h, ok, 1)
  \/ \E h \in 1..MaxHandlers, ok \in BOOLEAN : DailyPostDone(h, ok, 1)
  \/ \E h \in 1..MaxHandlers, ok \in BOOLEAN : CrownPostDone(h, ok, 1)

NextHandler == HandlerNext(FridayMsgs)

SpecHandler == InitFromFile(FridayFile) /\ [][NextHandler]_vars

\* C11: no week has more than one Weekly Crown post.
C11_CrownPostedOnce == \A wk \in DOMAIN slack.crown : slack.crown[wk] <= 1

\* C12: a week's crown record, once set, keeps its winners, points and crowned_at.
C12_CrownSetOnce ==
  [][\A k \in 1..Len(data.weekly_kings) :
       /\ KeyIndex(data'.weekly_kings, data.weekly_kings[k].key) # 0
       /\ data'.weekly_kings[KeyIndex(data'.weekly_kings, data.weekly_kings[k].key)].val
            = data.weekly_kings[k].val]_vars

\* C14: no date has more than one Daily Podium post.
C14_DailyPostedOnce == \A date \in DOMAIN slack.daily : slack.daily[date] <= 1

IsPrefix(a, b) == Len(a) <= Len(b) /\ SubSeq(b, 1, Len(a)) = a

\* C21: in every step the ledger of each date+game before the step is a prefix
\* of the ledger after it: recorded events stay, with their fields and in their
\* order, through every mutating call, query and restart.
C21_AppendOnly ==
  [][\A date \in WeekDates, g \in Games :
       IsPrefix(getMessages(data, date, g), getMessages(data', date, g))]_vars

C21_Witness ==
  /\ Len(Ledger) = 2 /\ Ledger[1].user_id = U(1) /\ Ledger[2].user_id = U(2)
  /\ last.op = "recordEvent" /\ last.exists /\ last.user = U(1)
  /\ Len(data.weekly_kings) = 1 /\ CountOf(data, Mon, "boom") = 2

(***************************************************************************)
(* SpecCount: valid posts are counted for two games on two dates while     *)
(* events of one date+game are recorded.                                   *)
(***************************************************************************)
CountGames == {"boom", "hadeda"}

NextCount ==
  \/ \E date \in WeekDates, g \in CountGames : IncrementCount(date, g) /\ UNCHANGED envVars
  \/ \E e \in StoreEventsIn : RecordEvent(Mon, "boom", e[1], e[2], C1, 0) /\ UNCHANGED envVars
  \/ \E date \in WeekDates : GetCounts(date) /\ UNCHANGED envVars

SpecCount == Init /\ [][NextCount]_vars

\* the step is a call incrementCount(date, game)
IsIncrement(date, g) ==
  last' # last /\ last'.op = "incrementCount" /\ last'.date = date /\ last'.game = g

\* C22: every count is 0 on a new store; a call incrementCount(date, game)
\* raises the count of date+game by 1 and returns it, with or without users on
\* the podium; the count getCounts reports for a date+game changes in no other
\* step, and incrementCount changes no ledger and no podium.
C22_CountFrame ==
  /\ \A date \in WeekDates, g \in Games : getCounts(data, date).ret[g] = 0
  /\ [][\A date \in WeekDates, g \in Games :
          /\ IsIncrement(date, g)
               => /\ getCounts(data', date).ret[g] = getCounts(data, date).ret[g] + 1
                  /\ last'.ret = getCounts(data', date).ret[g]
          /\ ~IsIncrement(date, g)
               => getCounts(data', date).ret[g] = getCounts(data, date).ret[g]
          /\ last'.op = "incrementCount"
               => /\ getMessages(data', date, g) = getMessages(data, date, g)
                  /\ getPlacements(data', date, g).ret = getPlacements(data, date, g).ret]_vars

C22_Witness ==
  /\ last.op = "incrementCount" /\ last.date = Tue /\ last.game = "hadeda" /\ last.ret = 2
  /\ CountOf(data, Mon, "boom") = 1 /\ CountOf(data, Mon, "hadeda") = 0
  /\ CountOf(data, Tue, "boom") = 2
  /\ Podium = <<U(2), U(1)>>

\* rows in the order of the leaderboard: more points first, and among equal
\* points the smaller user id first; no user twice
Ranked(rows) ==
  \A i, j \in 1..Len(rows) :
    i < j => \/ rows[i].points > rows[j].points
             \/ rows[i].points = rows[j].points /\ StrLess(rows[i].user_id, rows[j].user_id)

\* C23: weeklyTotals is sorted by points descending and, among equal points, by
\* user id ascending, and lists each user once.
C23_TotalsRanked == Ranked(weeklyTotals(data, Mon, Tue))

C23_Witness ==
  \E rows \in {weeklyTotals(data, Mon, Tue)} :
    /\ Len(rows) = 3
    /\ rows[1].points = 5 /\ rows[1].user_id = U(1)
    /\ rows[2].points = 5 /\ rows[2].user_id = U(4)
    /\ rows[3].points = 3 /\ rows[3].user_id = U(3)
    /\ Podium = <<U(4)>> /\ LegacyOf(data) = <<U(3)>>

\* the users at the maximum of a leaderboard, and that maximum
Leaders(rows) ==
  {rows[k].user_id : k \in {j \in 1..Len(rows) : \A l \in 1..Len(rows) : rows[l].points <= rows[j].points}}

MaxPoints(rows) ==
  CHOOSE p \in {rows[k].points : k \in 1..Len(rows)} : \A l \in 1..Len(rows) : rows[l].points <= p

\* the crown record of a week
CrownOf(d, wk) == d.weekly_kings[KeyIndex(d.weekly_kings, wk)].val

\* C24: in every step that writes the crown record of the week, the winners
\* written are exactly the users at the maximum of weeklyTotals for the week's
\* Monday..Friday at that moment, at least one, and the points written are that
\* maximum.
C24_WinnersAreLeaders ==
  [][data'.weekly_kings # data.weekly_kings
       => \E rows \in {weeklyTotals(data', Mon, Fri)} :
            \E rec \in {CrownOf(data', W10)} :
              /\ rows # <<>>
              /\ rec.winners # <<>>
              /\ {rec.winners[k] : k \in 1..Len(rec.winners)} = Leaders(rows)
              /\ Distinct(rec.winners)
              /\ rec.points = MaxPoints(rows)]_vars

C24_Witness ==
  /\ KeyIndex(data.weekly_kings, W10) # 0
  /\ CrownOf(data, W10).winners = <<U(1), U(3)>>
  /\ CrownOf(data, W10).points = 5
  /\ \E h \in 1..MaxHandlers : handlers[h].pc = "crownPost"

(***************************************************************************)
(* SpecRestDay: the Friday of SpecHandler, with a :boom: of Saturday (in   *)
(* the window) and a :boom: of the holiday (an hour late) delivered to the *)
(* same process.                                                           *)
(***************************************************************************)
RestDayMsgs == {1, 4, 5}

RestDays == {Sat, HumanRightsDay}

NextRestDay == HandlerNext(RestDayMsgs)

SpecRestDay == InitFromFile(FridayFile) /\ [][NextRestDay]_vars

\* the dates that the store file has an entry for, in counts, placements or
\* messages
DatesIn(text) ==
  LET d == load(text)
  IN (DOMAIN d.counts) \cup (DOMAIN d.placements) \cup (DOMAIN d.messages)

\* C26: a game-emoji message on a weekend day or a holiday awards nothing and
\* the store file never has a counts, placements or messages entry for that
\* date.
C26_NoRestDayEntries ==
  /\ \A date \in RestDays : date \notin DatesIn(file)
  /\ \A date \in RestDays \cap DOMAIN data.counts :
       \A g \in Games : /\ data.counts[date][g] = 0
                        /\ getMessages(data, date, g) = <<>>
                        /\ computePodium(data, date, g) = <<>>

(***************************************************************************)
(* SpecClown: Friday, the hadeda podium is full (U1, U2, U3) and U3 and U2 *)
(* are on the boom podium with the messages of 12:00:06 and 12:00:08.  The *)
(* :boom: of U1 of 12:00:05 and the one an hour late, a :wednesday-boom:   *)
(* and a :hadeda-boom: in the window are delivered.                        *)
(***************************************************************************)
ClownFile ==
  stringify(AfterPosts(AfterPosts(AfterPosts(AfterPosts(AfterPosts(initialData,
    "hadeda", U(1), <<1>>), "hadeda", U(2), <<2>>), "hadeda", U(3), <<3>>),
    "boom", U(3), <<6>>), "boom", U(2), <<8>>))

ClownMsgs == {1, 3, 7, 8}

NextClown == HandlerNext(ClownMsgs)

SpecClown == InitFromFile(ClownFile) /\ [][NextClown]_vars

\* the podium of the game has three users
PodiumFull(d, date, game) == Len(computePodium(d, date, game)) = 3

\* the message is a game emoji that is late, or whose podium is full, or that
\* comes when the podiums of all required games are full
ClownOwed(d, m) ==
  \E i \in {MsgInfos[m]} :
    /\ i.anyEmoji # "none"
    /\ \/ ~i.inWindow
       \/ PodiumFull(d, i.date, i.anyEmoji)
       \/ \A g \in neededGames(i.weekday) : PodiumFull(d, i.date, g)

\* the count, the ledger and the podium of the game on Friday
ScoreOf(d, game) ==
  <<CountOf(d, Fri, game), getMessages(d, Fri, game), computePodium(d, Fri, game)>>

\* C27: a game-emoji message outside the window, or on a full podium of its
\* game, or when all required podiums are full, goes to the clown reaction
\* and changes no count, ledger or podium; any other message is not clowned;
\* nothing is counted or recorded for a game whose podium is full, and no
\* event of a late message is ever in the ledger.
C27_ClownPath ==
  [][/\ \A h \in 1..MaxHandlers :
          (handlers[h].pc = "idle" /\ handlers'[h].pc = "clown")
            => /\ ClownOwed(data, handlers'[h].msg)
               /\ \A g \in Games : ScoreOf(data', g) = ScoreOf(data, g)
     /\ \A h \in 1..MaxHandlers :
          (handlers[h].pc = "idle" /\ handlers'[h].pc \in {"react", "dailyPost", "crownPost"})
            => ~ClownOwed(data, handlers'[h].msg)
     /\ \A g \in Games :
          (PodiumFull(data, Fri, g) \/ \A n \in neededGames(5) : PodiumFull(data, Fri, n))
            => ScoreOf(data', g) = ScoreOf(data, g)
     /\ \A g \in Games :
          \A k \in 1..Len(getMessages(data', Fri, g)) :
            inNoonWindow(tsSecondsOf(getMessages(data', Fri, g)[k].message_ts))
    ]_vars

\* the late :boom:, the :wednesday-boom: on closed podiums, the :boom: of U1
\* on the full boom podium and the :hadeda-boom: have all been clowned
C27_Witness ==
  /\ {<<1, "clown_face">>, <<3, "clown_face">>, <<7, "clown_face">>, <<8, "clown_face">>}
       \subseteq slack.reactions
  /\ computePodium(data, Fri, "boom") = <<U(1), U(3), U(2)>>
  /\ CountOf(data, Fri, "boom") = 3
  /\ CountOf(data, Fri, "hadeda") = 3

(***************************************************************************)
(* SpecRules: localDayInfo and inNoonWindow are called on instants of the  *)
(* three weeks from Monday 2025-03-03, which hold the holiday 2025-03-21,  *)
(* and on the invalid instant (NaN, -1).                                   *)
(***************************************************************************)
RuleDays == Mon..(HumanRightsDay + 2)

\* 00:00:00, 11:59:59, 12:00:00, 12:59:59, 13:00:00 and 23:59:59
DaySeconds == {0, Noon - 1, Noon, Noon + 3599, Noon + 3600, 86399}

Instants == {(date - Mon) * 86400 + sec : date \in RuleDays, sec \in DaySeconds} \cup {-1}

LocalDayInfo(tsSeconds) ==
  /\ last' = [op |-> "localDayInfo", arg |-> tsSeconds, ret |-> localDayInfo(tsSeconds)]
  /\ UNCHANGED <<data, file, lastCrown>>

InNoonWindow(tsSeconds) ==
  /\ last' = [op |-> "inNoonWindow", arg |-> tsSeconds, ret |-> inNoonWindow(tsSeconds)]
  /\ UNCHANGED <<data, file, lastCrown>>

NextRules ==
  \/ \E t \in Instants : LocalDayInfo(t) /\ UNCHANGED envVars
  \/ \E t \in Instants : InNoonWindow(t) /\ UNCHANGED envVars

SpecRules == Init /\ [][NextRules]_vars

\* the local calendar day of a valid instant, counted from Monday 2025-03-03
DaysSinceMon(tsSeconds) == tsSeconds \div 86400

\* C28: localDayInfo reports weekday 1 for Monday through 7 for Sunday, and
\* isWorkday exactly when the weekday is in 1..5 and the local date is not a
\* holiday of its year.
C28_WorkdayRule ==
  last.op = "localDayInfo" =>
    /\ last.ret.isWorkday <=> (last.ret.weekday \in 1..5 /\ last.ret.date \notin Holidays)
    /\ last.arg >= 0 =>
         /\ last.ret.date = Mon + DaysSinceMon(last.arg)
         /\ last.ret.weekday \in 1..7
         /\ (last.ret.weekday - 1) = (DaysSinceMon(last.arg) % 7)

\* Saturday 2025-03-08 at 12:00:00 is weekday 6 and no workday
C28_Witness ==
  /\ last.op = "localDayInfo"
  /\ last.arg = (Sat - Mon) * 86400 + Noon
  /\ last.ret = [date |-> Sat, weekday |-> 6, isWorkday |-> FALSE]

\* the holiday 2025-03-21 at 12:00:00 is weekday 5 and no workday
C28_HolidayReached ==
  /\ last.op = "localDayInfo"
  /\ last.arg = (HumanRightsDay - Mon) * 86400 + Noon
  /\ last.ret = [date |-> HumanRightsDay, weekday |-> 5, isWorkday |-> FALSE]

\* the local time of day of a valid instant, in seconds
SecondOfDay(tsSeconds) == tsSeconds % 86400

\* C29: inNoonWindow is true exactly from 12:00:00 to 12:59:59 local time.
C29_NoonHour ==
  (last.op = "inNoonWindow" /\ last.arg >= 0) =>
    (last.ret <=> (SecondOfDay(last.arg) >= Noon /\ SecondOfDay(last.arg) <= Noon + 3599))

\* 13:00:00 on Monday is outside the window
C29_Witness ==
  /\ last.op = "inNoonWindow"
  /\ last.arg = Noon + 3600
  /\ last.ret = FALSE

(***************************************************************************)
(* SpecWednesday: on Wednesday U3 has posted :boom: and :hadeda-boom:      *)
(* three times each, U3 and U2 have posted :wednesday-boom: once; on       *)
(* Friday U3 has posted :hadeda-boom: three times.  The :wednesday-boom:   *)
(* of U1 of Wednesday, the :wednesday-boom: of U2 of Friday and the :boom: *)
(* of U1 of Friday are delivered to the restarted process.                 *)
(***************************************************************************)
WednesdayBoom == AfterPostsOn(initialData, Wed, "boom", U(3), <<1, 2, 3>>)

WednesdayHadeda == AfterPostsOn(WednesdayBoom, Wed, "hadeda", U(3), <<1, 2, 3>>)

WednesdayAll ==
  AfterPostsOn(AfterPostsOn(WednesdayHadeda, Wed, "wednesday", U(3), <<4>>),
               Wed, "wednesday", U(2), <<6>>)

WednesdayFile == stringify(AfterPosts(WednesdayAll, "hadeda", U(3), <<1, 2, 3>>))

WednesdayMsgs == {1, 6, 7}

NextWednesday == HandlerNext(WednesdayMsgs)

SpecWednesday == InitFromFile(WednesdayFile) /\ [][NextWednesday]_vars

\* boom and hadeda on every weekday, wednesday as well on weekday 3
Required(weekday) == {"boom", "hadeda"} \cup (IF weekday = 3 THEN {"wednesday"} ELSE {})

\* every required game of the day of message m has three valid posts
AllCounted(d, m) ==
  \A g \in Required(MsgInfos[m].weekday) : CountOf(d, MsgInfos[m].date, g) >= 3

\* C30: the games required for the Daily Podium are boom and hadeda, and
\* wednesday as well exactly on weekday 3: a handler goes to the daily post
\* only when each of them has three valid posts, and does not pass it by
\* when they have and the day is not announced.  A :wednesday-boom: is
\* counted and recorded only on weekday 3.
C30_WednesdayOnly ==
  [][/\ \A date \in DOMAIN data'.counts :
          date # Wed => /\ CountOf(data', date, "wednesday") = 0
                        /\ getMessages(data', date, "wednesday") = <<>>
     /\ \A h \in 1..MaxHandlers :
          (handlers[h].pc # "dailyPost" /\ handlers'[h].pc = "dailyPost")
            => AllCounted(data', handlers'[h].msg)
     /\ \A h \in 1..MaxHandlers :
          (handlers[h].pc \in {"idle", "react"} /\ handlers'[h].pc = "crownPost")
            => ~(AllCounted(data', handlers'[h].msg)
                 /\ ~hasDailyAnnounced(data, MsgInfos[handlers'[h].msg].date))
     /\ \A h \in 1..MaxHandlers :
          (handlers[h].pc = "react" /\ handlers'[h].pc = "idle")
            => ~(AllCounted(data', handlers[h].msg)
                 /\ ~hasDailyAnnounced(data, MsgInfos[handlers[h].msg].date))
    ]_vars

\* the Daily Podium of Wednesday was posted once :wednesday-boom: had three
\* valid posts, the one of Friday without any; the :wednesday-boom: of Friday
\* got no reaction
C30_Witness ==
  /\ Wed \in DOMAIN slack.daily
  /\ Fri \in DOMAIN slack.daily
  /\ CountOf(data, Wed, "wednesday") = 3
  /\ UsersIn(getMessages(data, Wed, "wednesday")) = {U(1), U(2), U(3)}
  /\ CountOf(data, Fri, "wednesday") = 0
  /\ CountOf(data, Fri, "boom") = 3
  /\ \A r \in slack.reactions : r[1] # 7

(***************************************************************************)
(* SpecHolidays: isHolidayDate is called in a fresh process (empty cache)  *)
(* with holiday files of 2024 and 2025 that are missing, broken, no array  *)
(* or an array, and with a HOLIDAYS list.                                  *)
(***************************************************************************)
\* 2024-12-31, a Tuesday
NewYearsEve == Mon - 62

HolidayFilesIn ==
  {MissingFile, BrokenFile,
   ObjectFile({DateString(HumanRightsDay), DateString(NewYearsEve)}),
   ArrayFile({DateString(HumanRightsDay), OtherString, NoString}),
   ArrayFile({DateString(NewYearsEve)})}

ExtraIn == SUBSET {NewYearsEve, Fri}

HolidayDatesIn == {NewYearsEve, Fri, HumanRightsDay}

\* isHolidayDate(date): the set of the date's year is loaded and asked
IsHolidayDate(f24, f25, extra, date) ==
  /\ last' = [op |-> "isHolidayDate",
              files |-> [year \in {2024, 2025} |-> IF year = 2024 THEN f24 ELSE f25],
              extra |-> extra, date |-> date, threw |-> FALSE,
              ret |-> date \in loadYearHolidays(YearOf(date),
                        [year \in {2024, 2025} |-> IF year = 2024 THEN f24 ELSE f25], extra)]
  /\ UNCHANGED <<data, file, lastCrown>>

NextHolidays ==
  \E f24, f25 \in HolidayFilesIn, extra \in ExtraIn, date \in HolidayDatesIn :
    IsHolidayDate(f24, f25, extra, date) /\ UNCHANGED envVars

SpecHolidays == Init /\ [][NextHolidays]_vars

\* C31: when the holiday file of the date's year is missing, is no array or
\* does not parse, isHolidayDate does not throw and a date is a holiday only
\* if the HOLIDAYS list names it.
C31_NoFileNoHolidays ==
  (last.op = "isHolidayDate" /\ last.files[YearOf(last.date)].kind # "array")
    => /\ ~last.threw
       /\ last.ret <=> last.date \in last.extra

\* the file of 2025 is an object that holds 2025-03-21: the date is no holiday
C31_Witness ==
  /\ last.op = "isHolidayDate"
  /\ last.files[2025].kind = "notArray"
  /\ last.date = HumanRightsDay
  /\ last.extra = {Fri}
  /\ ~last.ret

(***************************************************************************)
(* SpecLegacy: addPlacement is called without a timestamp, for boom by     *)
(* four users and for hadeda by two, in any order and again and again; no  *)
(* raw event is ever recorded.                                             *)
(***************************************************************************)
LegacyUsers == {U(1), U(2), U(3), U(4)}

NextLegacy ==
  \/ \E user \in LegacyUsers : AddPlacementLegacy(Mon, "boom", user) /\ UNCHANGED envVars
  \/ \E user \in {U(1), U(2)} : AddPlacementLegacy(Mon, "hadeda", user) /\ UNCHANGED envVars
  \/ \E g \in {"boom", "hadeda"} : GetPlacements(Mon, g) /\ UNCHANGED envVars

SpecLegacy == Init /\ [][NextLegacy]_vars

\* what getPlacements(date, game) returns
PlacementsOf(d, date, game) == getPlacements(d, date, game).ret

\* C32: without raw events, addPlacement without a timestamp gives a new
\* user the next of the positions 1, 2, 3 and puts the user at the end of
\* what getPlacements returns; a user already placed, and any user once three
\* are placed, gets 0 and getPlacements returns what it did.
C32_LegacyCallOrder ==
  [][(last' # last /\ last'.op = "addPlacementLegacy")
       => \E before \in {PlacementsOf(data, last'.date, last'.game)} :
            \E after \in {PlacementsOf(data', last'.date, last'.game)} :
              IF InSeq(last'.user, before) \/ Len(before) = 3
              THEN last'.ret = 0 /\ after = before
              ELSE /\ last'.ret = Len(before) + 1
                   /\ last'.ret \in 1..3
                   /\ after = Append(before, last'.user)]_vars

\* U2, U4 and U1 were placed in this order; U3 came last and got 0
C32_Witness ==
  /\ PlacementsOf(data, Mon, "boom") = <<U(2), U(4), U(1)>>
  /\ last.op = "addPlacementLegacy"
  /\ last.game = "boom"
  /\ last.user = U(3)
  /\ last.ret = 0
  /\ getMessages(data, Mon, "boom") = <<>>

(***************************************************************************)
(* The RateLimiter of the chat feature: a token bucket per key.            *)
(***************************************************************************)
\* new RateLimiter({ capacity: 1, refillTokens: 1, refillIntervalMs: 60_000 })
userLimiter == [capacity |-> 1, refillTokens |-> 1, refillIntervalMs |-> 60000]

\* `${scope}:${id}`
keyFor(scope, id) == <<scope, id>>

\* refill(b) at Date.now() = now
refill(opts, b, now) ==
  IF now <= b.lastRefillMs THEN b
  ELSE LET intervals == (now - b.lastRefillMs) \div opts.refillIntervalMs
       IN IF intervals > 0
          THEN [tokens |-> Min(opts.capacity, b.tokens + intervals * opts.refillTokens),
                lastRefillMs |-> b.lastRefillMs + intervals * opts.refillIntervalMs]
          ELSE b

\* consume(scope, id) at Date.now() = now: the buckets after it and what it returns
consume(opts, buckets, scope, id, now) ==
  LET k == keyFor(scope, id)
      b == refill(opts, IF k \in DOMAIN buckets THEN buckets[k]
                        ELSE [tokens |-> opts.capacity, lastRefillMs |-> now], now)
  IN IF b.tokens > 0
     THEN [buckets |-> Put(buckets, k, [b EXCEPT !.tokens = @ - 1]), ret |-> TRUE]
     ELSE [buckets |-> Put(buckets, k, b), ret |-> FALSE]

(***************************************************************************)
(* SpecLimiter: two users mention the bot at any moments of a clock that   *)
(* advances in steps of TickMs; neither is an admin.                       *)
(***************************************************************************)
TickMs == 20000

MaxTicks == 9

LimiterUsers == {U(1), U(2)}

ClockAdvances ==
  /\ limiter.now < MaxTicks * TickMs
  /\ limiter' = [limiter EXCEPT !.now = @ + TickMs]
  /\ UNCHANGED <<data, file, last, lastCrown, io, handlers, slack>>

\* userLimiter.consume('user', ev.user)
Consume(id) ==
  /\ \E r \in {consume(userLimiter, limiter.buckets, "user", id, limiter.now)} :
       /\ limiter' = [limiter EXCEPT
                        !.buckets = r.buckets,
                        !.allowedAt = IF r.ret THEN Put(@, id, limiter.now) ELSE @]
       /\ last' = [op |-> "consume", id |-> id, now |-> limiter.now, ret |-> r.ret]
  /\ UNCHANGED <<data, file, lastCrown, io, handlers, slack>>

NextLimiter ==
  \/ ClockAdvances
  \/ \E id \in LimiterUsers : Consume(id)

SpecLimiter == Init /\ [][NextLimiter]_vars

\* C33: a request of a user is allowed only if the user's last allowed
\* request is at least 60 seconds old; no two requests of a user less than
\* 60 seconds apart are both allowed.
C33_OnePerMinute ==
  [][(last' # last /\ last'.op = "consume" /\ last'.ret)
       => \/ last'.id \notin DOMAIN limiter.allowedAt
          \/ last'.now - limiter.allowedAt[last'.id] >= 60000]_vars

(***************************************************************************)
(* SpecDaily: Friday, after three :hadeda-boom: of U3 and the :boom: of U1 *)
(* handled twice, the week crowned; the :boom: of U1 keeps being sent.     *)
(* The handler compares counts with 3 only; a count of MaxValid stands for *)
(* every count from MaxValid on, so that the valid message can be handled  *)
(* without end.  Every Slack call ends, a message that keeps being sent is *)
(* handled, and the Daily Podium post does not fail for ever.  The week is *)
(* crowned, so no handler comes to the Weekly Crown post.                  *)
(***************************************************************************)
DailyPosts == AfterPosts(AfterPosts(initialData, "hadeda", U(3), <<1, 2, 3>>), "boom", U(1), <<5, 5>>)

DailyFile ==
  stringify(markCrowned(setCrown(DailyPosts, W10, <<U(1), U(3)>>, 5, 1).d, W10, 1).d)

incrementCountFrom(d0, date, game) ==
  IF CountOf(d0, date, game) >= MaxValid
  THEN [d |-> ensureDay(d0, date), ret |-> MaxValid, flushed |-> TRUE]
  ELSE incrementCount(d0, date, game)

DailyMsgs == {1}

\* a step in which a handler takes a valid message: U1 holds the first place
\* and the handler comes to the reaction
DeliverValid ==
  \E h \in 1..MaxHandlers, m \in DailyMsgs :
    handlers[h].pc = "idle" /\ handlers'[h] = At(m, "react")

\* a step in which a Daily Podium post ends without an error
DailyPosted ==
  \E h \in 1..MaxHandlers :
    handlers[h].pc = "dailyPost" /\ handlers'[h].pc = "idle" /\ slack'.daily # slack.daily

\* a handler is at its await of pc
Awaits(pc) == \E h \in 1..MaxHandlers : handlers[h].pc = pc

NextDaily ==
  \/ \E h \in 1..MaxHandlers, m \in {1, 3} : DeliverBy(incrementCountFrom, h, m, 1)
  \/ \E h \in 1..MaxHandlers, ok \in BOOLEAN : ClownDone(h, ok)
  \/ \E h \in 1..MaxHandlers, ok \in BOOLEAN : ReactionDone(h, ok, 1)
  \/ \E h \in 1..MaxHandlers, ok \in BOOLEAN : DailyPostDone(h, ok, 1)

\* valid posts keep being handled; every reactions.add ends; a Daily Podium
\* post that is tried again and again ends without an error at some time
FairDaily ==
  /\ []<><<DeliverValid>>_vars
  /\ \A h \in 1..MaxHandlers : handlers[h].pc = "react" ~> handlers[h].pc # "react"
  /\ ([]<>Awaits("dailyPost")) => []<><<DailyPosted>>_vars

SpecDaily == InitFromFile(DailyFile) /\ [][NextDaily]_vars /\ FairDaily

\* every game required on Friday has three valid posts
Ready(d) == \A g \in {"boom", "hadeda"} : CountOf(d, Fri, g) >= 3

KeyDays == (NewYearsEve - 365)..(NewYearsEve + 362)

WeekStartEnd(date) ==
  /\ last' = [op |-> "weekStartEnd", arg |-> date, ret |-> weekStartEnd(date)]
  /\ UNCHANGED <<data, file, lastCrown>>

WeekKeyFor(date) ==
  /\ last' = [op |-> "weekKeyFor", arg |-> date, ret |-> weekKeyFor(date)]
  /\ UNCHANGED <<data, file, lastCrown>>

\* the key weeklyTotals(start, end) computes for the week of a date
WeekKeyForRange(date) ==
  /\ last' = [op |-> "weekKeyForRange", arg |-> weekStartEnd(date),
              ret |-> weekKeyForRange(weekStartEnd(date).start, weekStartEnd(date).end)]
  /\ UNCHANGED <<data, file, lastCrown>>

NextWeekKey ==
  \/ \E date \in KeyDays : WeekStartEnd(date) /\ UNCHANGED envVars
  \/ \E date \in KeyDays : WeekKeyFor(date) /\ UNCHANGED envVars
  \/ \E date \in KeyDays : WeekKeyForRange(date) /\ UNCHANGED envVars

SpecWeekKey == Init /\ [][NextWeekKey]_vars

\* C35: for every date, the Monday..Friday that weekStartEnd returns all have
\* the weekKeyFor value of the date, that value is the key weeklyTotals uses
\* for the adjustments of the range (weekKeyForRange), and no date of another
\* Monday..Friday week has the same key.
C35_WeekKeysConsistent ==
  last.op = "weekStartEnd" =>
    /\ \A d \in (last.ret.start)..(last.ret.end) : weekKeyFor(d) = weekKeyFor(last.arg)
    /\ weekKeyForRange(last.ret.start, last.ret.end) = weekKeyFor(last.arg)
    /\ \A other \in KeyDays :
         weekStartEnd(other).start # last.ret.start => weekKeyFor(other) # weekKeyFor(last.arg)

\* C36: for one date+game, whatever the order in which the events arrive,
\* recordEvent returns position 1 to at most one user.  The first event of a
\* date+game always gets position 1 (its user is alone on the podium), so no
\* event recorded after another user's may get position 1.
C36_OneFirstPlace ==
  [][(last'.op = "recordEvent" /\ last'.ret = 1) =>
        \A i \in 1..Len(getMessages(data, last'.date, last'.game)) :
          getMessages(data, last'.date, last'.game)[i].user_id = last'.user]_vars

\* counts >= ledger events >= distinct users >= placementsCount, for every
\* date+game of the Store's data d
Ordered(d) ==
  \A date \in DOMAIN d.messages, game \in Games :
    /\ CountOf(d, date, game) >= Len(getMessages(d, date, game))
    /\ Len(getMessages(d, date, game)) >= Cardinality(UsersIn(getMessages(d, date, game)))
    /\ Cardinality(UsersIn(getMessages(d, date, game))) >= placementsCount(d, date, game).ret

\* handler h takes message m, finds it valid and counts it
Counted(h, m) ==
  /\ handlers[h].pc = "idle"
  /\ handlers'[h].pc \in {"react", "dailyPost", "crownPost"}
  /\ handlers'[h].msg = m

\* C37: in every state reached through the message handler, for every
\* date+game, the count is at least the number of ledger events, which is at
\* least the number of distinct users in the ledger, which is at least
\* placementsCount; and a valid event delivered again (same user and ts as an
\* event of the ledger) raises the count by one and leaves the ledger as it is.
C37_CountsBoundLedger ==
  /\ []Ordered(data)
  /\ [][\A h \in 1..MaxHandlers, m \in FridayMsgs :
          \E i \in {MsgInfos[m]} :
            (Counted(h, m) /\ eventExists(getMessages(data, i.date, i.game),
                                          MsgsIn[m].user, i.tsStr))
              => /\ CountOf(data', i.date, i.game) = CountOf(data, i.date, i.game) + 1
                 /\ getMessages(data', i.date, i.game) = getMessages(data, i.date, i.game)]_vars

\* :boom: of U1 has been delivered twice and that of U2 once: count 3, two
\* events of two users, both on the podium; hadeda has three events of one user
C37_Witness ==
  /\ CountOf(data, Fri, "boom") = 3
  /\ Len(getMessages(data, Fri, "boom")) = 2
  /\ placementsCount(data, Fri, "boom").ret = 2
  /\ Len(getMessages(data, Fri, "hadeda")) = 3
  /\ placementsCount(data, Fri, "hadeda").ret = 1

\* the points a podium of n users hands out: 5, 5 + 3, 5 + 3 + 1
PodiumWorth(n) == CASE n = 0 -> 0 [] n = 1 -> 5 [] n = 2 -> 8 [] n = 3 -> 9

RECURSIVE SumOfPoints(_)
SumOfPoints(rows) == IF rows = <<>> THEN 0 ELSE Head(rows).points + SumOfPoints(Tail(rows))

\* the worth of the podiums of every game on the dates start..end
RECURSIVE WorthIn(_, _, _)
WorthIn(d, start, end) ==
  IF start > end THEN 0
  ELSE PodiumWorth(Len(computePodium(d, start, "boom")))
       + PodiumWorth(Len(computePodium(d, start, "hadeda")))
       + PodiumWorth(Len(computePodium(d, start, "wednesday")))
       + WorthIn(d, start + 1, end)

\* C38: with no baseline adjustments, the points of weeklyTotals(start, end)
\* add up to the sum, over the dates in range and the games, of w(n) for the
\* podium's length n, with w(0) = 0, w(1) = 5, w(2) = 8, w(3) = 9; no podium
\* is longer than 3, so no date+game gives more than 9 points; and every
\* listed user has at least 1 point.
C38_PointsConserved ==
  data.weekly_adjustments = EmptyMap
    => /\ \A date \in WeekDates, g \in Games : Len(computePodium(data, date, g)) <= 3
       /\ \A start, end \in WeekDates :
            \E rows \in {weeklyTotals(data, start, end)} :
              /\ SumOfPoints(rows) = WorthIn(data, start, end)
              /\ \A k \in 1..Len(rows) : rows[k].points >= 1

\* Monday's boom has one user, Tuesday's hadeda three: 5 + 9 points in all
C38_Witness ==
  /\ data.weekly_adjustments = EmptyMap
  /\ Len(computePodium(data, Mon, "boom")) = 1
  /\ Len(computePodium(data, Tue, "hadeda")) = 3
  /\ SumOfPoints(weeklyTotals(data, Mon, Tue)) = 14
  /\ SumOfPoints(weeklyTotals(data, Tue, Tue)) = 9

\* C39: whenever no message handler is in progress, the week of the crown
\* record that getLatestCrown returns, if there is one, is marked crowned
\* (hasCrowned), also after a handler whose crown post failed.
C39_CrownedIsMarked ==
  (\A h \in 1..MaxHandlers : handlers[h].pc = "idle")
    => \/ getLatestCrown(data) = NoCrown
       \/ hasCrowned(data, getLatestCrown(data).weekKey)

(***************************************************************************)
(* SpecQuery: the queries of the Store, called in any order between the    *)
(* mutating calls.  last holds the query last made and what it returned.    *)
(***************************************************************************)
QueryGames == {"boom", "hadeda"}

\* a query that calls ensureDay has returned r
Asked(q, date, game, r) ==
  /\ data' = r.d
  /\ file' = Persist(r)
  /\ last' = [op |-> "query", q |-> q, date |-> date, game |-> game, ret |-> r.ret]
  /\ UNCHANGED lastCrown

\* a query that only reads this.data has returned ret
Read(q, date, ret) ==
  /\ last' = [op |-> "query", q |-> q, date |-> date, game |-> "boom", ret |-> ret]
  /\ UNCHANGED <<data, file, lastCrown>>

QueryGetCounts(date) == Asked("getCounts", date, "boom", getCounts(data, date))

QueryPlacementsCount(date, game) ==
  Asked("placementsCount", date, game, placementsCount(data, date, game))

QueryGetPlacements(date, game) ==
  Asked("getPlacements", date, game, getPlacements(data, date, game))

QueryHasDailyAnnounced(date) == Read("hasDailyAnnounced", date, hasDailyAnnounced(data, date))

\* hasCrowned of the week of a date
QueryHasCrowned(date) == Read("hasCrowned", date, hasCrowned(data, weekKeyFor(date)))

QueryGetLatestCrown == Read("getLatestCrown", Mon, getLatestCrown(data))

\* weeklyTotals(start, end) with end = Tuesday
QueryWeeklyTotals(start) == Read("weeklyTotals", start, weeklyTotals(data, start, Tue))

NextQuery ==
  \/ IncrementCount(Mon, "boom") /\ UNCHANGED envVars
  \/ \E e \in StoreEventsIn : RecordEvent(Mon, "boom", e[1], e[2], C1, 0) /\ UNCHANGED envVars
  \/ MarkDailyAnnounced(Mon, 1) /\ UNCHANGED envVars
  \/ MarkCrowned(W10, 1) /\ UNCHANGED envVars
  \/ SetCrown(W10, <<U(1)>>, 5, 1) /\ UNCHANGED envVars
  \/ \E date \in WeekDates : QueryGetCounts(date) /\ UNCHANGED envVars
  \/ \E date \in WeekDates, g \in QueryGames : QueryPlacementsCount(date, g) /\ UNCHANGED envVars
  \/ \E date \in WeekDates, g \in QueryGames : QueryGetPlacements(date, g) /\ UNCHANGED envVars
  \/ \E date \in WeekDates : QueryHasDailyAnnounced(date) /\ UNCHANGED envVars
  \/ \E date \in WeekDates : QueryHasCrowned(date) /\ UNCHANGED envVars
  \/ QueryGetLatestCrown /\ UNCHANGED envVars
  \/ \E start \in WeekDates : QueryWeeklyTotals(start) /\ UNCHANGED envVars

SpecQuery == Init /\ [][NextQuery]_vars

\* what every query answers on the Store's data d
AllAnswers(d) ==
  [counts          |-> [date \in WeekDates |-> getCounts(d, date).ret],
   placementsCount |-> [date \in WeekDates |-> [g \in Games |-> placementsCount(d, date, g).ret]],
   placements      |-> [date \in WeekDates |-> [g \in Games |-> getPlacements(d, date, g).ret]],
   announced       |-> [date \in WeekDates |-> hasDailyAnnounced(d, date)],
   crowned         |-> [date \in WeekDates |-> hasCrowned(d, weekKeyFor(date))],
   latest          |-> getLatestCrown(d),
   totals          |-> [start \in WeekDates |-> weeklyTotals(d, start, Tue)]]

\* C40: a query (getCounts, placementsCount, getPlacements, hasDailyAnnounced,
\* hasCrowned, getLatestCrown, weeklyTotals) leaves the store file as it is and
\* changes the answer of no query, and the same query made twice with no
\* mutating call in between returns the same both times.
C40_QueriesArePure ==
  [][last'.op = "query"
       => /\ file' = file
          /\ AllAnswers(data') = AllAnswers(data)
          /\ (last.op = "query" /\ last.q = last'.q /\ last.date = last'.date
                /\ last.game = last'.game) => last'.ret = last.ret]_vars

\* getCounts has been asked about a date the Store had no entry for: the entry
\* exists in memory only, and the Store holds a counted event, a crown and marks
C40_Witness ==
  /\ last.op = "query" /\ last.q = "getCounts" /\ last.date = Tue
  /\ Tue \in DOMAIN data.counts
  /\ Tue \notin DatesIn(file)
  /\ CountOf(data, Mon, "boom") = 2
  /\ Len(getMessages(data, Mon, "boom")) = 2
  /\ hasDailyAnnounced(data, Mon) /\ hasCrowned(data, W10)
  /\ getLatestCrown(data) # NoCrown

====
